---------------------------- MODULE Spec2Model ----------------------------
(***************************************************************************)
(* FinanceCalendar: the SQLite store of src/database_manager.py (deposit   *)
(* ledger daily_data, contract_settings) and the engine computed over it   *)
(* (monthly plan, effective rate, daily-compounded interest).              *)
(*                                                                         *)
(* Representation of values                                                *)
(*   QDate     an integer day number (Qt keeps a Julian day number); the   *)
(*             invalid QDate is NullDate, smaller than every valid date.   *)
(*   text      a formatted date is the sequence of its numeric fields in   *)
(*             the order of the format: 'yyyy-MM-dd' is <<y, m, d>>,       *)
(*             'dd.MM.yyyy' is <<d, m, y>>, 'yyyy-MM' is <<y, m>>.         *)
(*   money     amounts held by the store are integers (kopecks; the input  *)
(*             validator admits two decimals).  The plan's float division  *)
(*             is exact rational arithmetic, a rational being <<n, d>> in  *)
(*             lowest terms with d > 0.  The interest simulation is fixed  *)
(*             point: a daily interest is truncated to a whole kopeck.     *)
(*             Float rounding itself is not modelled.                      *)
(***************************************************************************)
EXTENDS Integers, Sequences, FiniteSets, TLC

VARIABLES
    daily_data,         \* table daily_data: rows [date, amount] in rowid order
    contract_settings,  \* table contract_settings: rows in id order
    today,              \* QDate.currentDate()
    last,               \* the operation performed last, its arguments and result
    window              \* the main window: its fields, once it is constructed

vars == <<daily_data, contract_settings, today, last, window>>

---------------------------------------------------------------------------
(* Bounds of the model *)

\* longest rate_history drawn as an input
MaxRateChanges == 2

\* most rows of a ledger drawn as an input
MaxLedgerRows == 2

\* years covered by the calendar
Years == 2022 .. 2025

---------------------------------------------------------------------------
(* QDate: Julian day numbers of the Gregorian calendar, valid over Years *)

NullDate == 0

isLeapYear(y) == (y % 4 = 0 /\ y % 100 # 0) \/ y % 400 = 0

daysInYearOf(y) == IF isLeapYear(y) THEN 366 ELSE 365

daysInMonthOf(y, m) ==
    IF m = 2 THEN (IF isLeapYear(y) THEN 29 ELSE 28)
    ELSE IF m \in {4, 6, 9, 11} THEN 30 ELSE 31

\* the Julian day number of a Gregorian date
julianDayFromDate(y, m, d) ==
    LET a == (14 - m) \div 12
        yy == y + 4800 - a
        mm == m + 12 * a - 3
    IN  d + (153 * mm + 2) \div 5 + 365 * yy + yy \div 4 - yy \div 100
          + yy \div 400 - 32045

\* the Gregorian date <<y, m, d>> of a Julian day number
getDateFromJulianDay(jd) ==
    LET a == jd + 32044
        b == (4 * a + 3) \div 146097
        c == a - (146097 * b) \div 4
        d == (4 * c + 3) \div 1461
        e == c - (1461 * d) \div 4
        m == (5 * e + 2) \div 153
    IN  <<100 * b + d - 4800 + m \div 10,
          m + 3 - 12 * (m \div 10),
          e - (153 * m + 2) \div 5 + 1>>

\* QDate(y, m, d): invalid when the day does not exist
QDate(y, m, d) ==
    IF y \in Years /\ m \in 1 .. 12 /\ d \in 1 .. daysInMonthOf(y, m)
    THEN julianDayFromDate(y, m, d) ELSE NullDate

isValid(date) == date # NullDate /\ getDateFromJulianDay(date)[1] \in Years

year(date) == getDateFromJulianDay(date)[1]
month(date) == getDateFromJulianDay(date)[2]
day(date) == getDateFromJulianDay(date)[3]

daysInMonth(date) == daysInMonthOf(year(date), month(date))
daysInYear(date) == daysInYearOf(year(date))

addDays(date, n) == IF isValid(date) /\ isValid(date + n) THEN date + n ELSE NullDate

\* QDate.addMonths: same day of month, or the month's last day when it has no such day
addMonths(date, n) ==
    IF ~isValid(date) THEN NullDate
    ELSE LET k == year(date) * 12 + (month(date) - 1) + n
             y == k \div 12
             m == (k % 12) + 1
         IN  IF y \notin Years THEN NullDate
             ELSE QDate(y, m, IF day(date) <= daysInMonthOf(y, m)
                              THEN day(date) ELSE daysInMonthOf(y, m))

addYears(date, n) == addMonths(date, 12 * n)

---------------------------------------------------------------------------
(* Date text *)

\* QDate.toString('yyyy-MM-dd'); an invalid date formats to the empty string
toStringISO(date) ==
    IF isValid(date) THEN <<year(date), month(date), day(date)>> ELSE <<>>

\* QDate.fromString(s, 'yyyy-MM-dd')
fromStringISO(s) == IF Len(s) = 3 THEN QDate(s[1], s[2], s[3]) ELSE NullDate

\* QDate.toString('yyyy-MM'), f"{year}-{month:02d}"
MonthKey(y, m) == <<y, m>>

toStringMonth(date) == IF isValid(date) THEN MonthKey(year(date), month(date)) ELSE <<>>

\* QDate.toString('dd.MM.yyyy') as the settings dialog writes rate_history dates
toStringDMY(date) ==
    IF isValid(date) THEN <<day(date), month(date), year(date)>> ELSE <<>>

\* QDate.fromString(s, 'dd.MM.yyyy')
fromStringDMY(s) == IF Len(s) = 3 THEN QDate(s[3], s[2], s[1]) ELSE NullDate

\* str.startswith
startswith(s, prefix) ==
    Len(prefix) <= Len(s) /\ SubSeq(s, 1, Len(prefix)) = prefix

---------------------------------------------------------------------------
(* Sequences as tables and lists *)

Range(s) == {s[i] : i \in DOMAIN s}

\* The sequences of at most n distinct elements of S
RECURSIVE DistinctSeqs(_, _)
DistinctSeqs(S, n) ==
    IF n = 0 THEN {<<>>}
    ELSE LET shorter == DistinctSeqs(S, n - 1)
         IN  shorter \cup {Append(s, x) : <<s, x>> \in
                              {p \in shorter \X S : p[2] \notin Range(p[1])}}

---------------------------------------------------------------------------
(* Table daily_data: date TEXT UNIQUE NOT NULL, amount REAL NOT NULL *)

Row(key, amount) == [date |-> key, amount |-> amount]

\* rows a statement with WHERE date = key touches
RowsWithDate(table, key) == SelectSeq(table, LAMBDA r : r.date = key)

\* DELETE FROM daily_data WHERE date = ?
DeleteWhereDate(table, key) == SelectSeq(table, LAMBDA r : r.date # key)

\* the mutant of InsertOrReplace: a plain INSERT that ignores the UNIQUE date
InsertKeepingOld(table, key, amount) == Append(table, Row(key, amount))

\* INSERT OR REPLACE INTO daily_data: the row in conflict on the UNIQUE date is
\* deleted and the new row gets a fresh rowid
InsertOrReplace(table, key, amount) ==
    Append(DeleteWhereDate(table, key), Row(key, amount))

\* the table after save_daily_amount(date, amount)
SaveDailyAmountTable(table, date, amount) ==
    IF amount = 0
    THEN DeleteWhereDate(table, toStringISO(date))
    ELSE InsertOrReplace(table, toStringISO(date), amount)

\* the mutant of GetDailyAmount: looks the date up under the 'dd.MM.yyyy' text
GetDailyAmountOtherFormat(table, date) ==
    LET result == RowsWithDate(table, toStringDMY(date))
    IN  IF result # <<>> THEN result[1].amount ELSE 0

\* get_daily_amount: SELECT amount ... WHERE date = ?, fetchone()
GetDailyAmount(table, date) ==
    LET result == RowsWithDate(table, toStringISO(date))
    IN  IF result # <<>> THEN result[1].amount ELSE 0

\* get_all_daily_data: {row[0]: row[1] for row in fetchall()}, a later row
\* overwriting an earlier one under the same key
GetAllDailyData(table) ==
    [key \in {table[i].date : i \in DOMAIN table} |->
        LET rows == RowsWithDate(table, key) IN rows[Len(rows)].amount]

\* dict.get(key, default)
DictGet(dict, key, default) == IF key \in DOMAIN dict THEN dict[key] ELSE default

\* sum(dict.values()), and the sum of the values whose key satisfies a test
RECURSIVE SumOver(_, _)
SumOver(dict, keys) ==
    IF keys = {} THEN 0
    ELSE LET k == CHOOSE k \in keys : TRUE
         IN  dict[k] + SumOver(dict, keys \ {k})

SumValues(dict) == SumOver(dict, DOMAIN dict)

---------------------------------------------------------------------------
(* Table contract_settings *)

\* the dict contract_data / the dict get_contract_settings returns
Settings(start, end, rate, history, amount) ==
    [start_date |-> start, end_date |-> end, initial_rate |-> rate,
     rate_history |-> history, contract_amount |-> amount]

\* one entry of rate_history: {'date': 'dd.MM.yyyy', 'rate': float}
RateChange(date, rate) == [date |-> toStringDMY(date), rate |-> rate]

\* json.dumps of the list of dicts: per entry its (key, value) pairs in order
json_dumps(history) ==
    [i \in DOMAIN history |->
        << <<"date", history[i].date>>, <<"rate", history[i].rate>> >>]

\* json.loads: an entry's value under a key is that of its last pair with the key
JsonValue(object, key) ==
    LET hits == SelectSeq(object, LAMBDA kv : kv[1] = key)
    IN  hits[Len(hits)][2]

\* the mutant of json_loads: the list comes back in reverse order
JsonLoadsReversed(text) ==
    [i \in DOMAIN text |->
        [date |-> JsonValue(text[Len(text) + 1 - i], "date"),
         rate |-> JsonValue(text[Len(text) + 1 - i], "rate")]]

json_loads(text) ==
    [i \in DOMAIN text |->
        [date |-> JsonValue(text[i], "date"), rate |-> JsonValue(text[i], "rate")]]

SettingsRow(contract_data) ==
    [start_date |-> toStringISO(contract_data.start_date),
     end_date |-> toStringISO(contract_data.end_date),
     initial_rate |-> contract_data.initial_rate,
     rate_history |-> json_dumps(contract_data.rate_history),
     contract_amount |-> contract_data.contract_amount]

\* the mutant of DeleteAllSettings: the old records are kept
DeleteNoSettings(table) == table

\* DELETE FROM contract_settings
DeleteAllSettings(table) == <<>>

\* the table after save_contract_settings(contract_data)
SaveContractSettingsTable(table, contract_data) ==
    Append(DeleteAllSettings(table), SettingsRow(contract_data))

\* the mutant of DefaultSettings: the default contract began a year ago
DefaultSettingsYearAgo(current) == Settings(addYears(current, -1), current, 0, <<>>, 0)

\* the defaults returned when the table holds no record
DefaultSettings(current) == Settings(current, addYears(current, 1), 0, <<>>, 0)

\* get_contract_settings: SELECT * ... ORDER BY id DESC LIMIT 1
GetContractSettings(table, current) ==
    IF table # <<>>
    THEN LET result == table[Len(table)]
         IN  Settings(fromStringISO(result.start_date),
                      fromStringISO(result.end_date),
                      result.initial_rate,
                      json_loads(result.rate_history),
                      result.contract_amount)
    ELSE DefaultSettings(current)

---------------------------------------------------------------------------
(* Float arithmetic of the plan, as exact rationals <<n, d>> *)

RECURSIVE GCD(_, _)
GCD(a, b) == IF b = 0 THEN a ELSE GCD(b, a % b)

Abs(n) == IF n < 0 THEN 0 - n ELSE n

\* n / d in lowest terms, d > 0
Rat(n, d) == LET g == GCD(Abs(n), d) IN <<n \div g, d \div g>>

FromInt(n) == <<n, 1>>

RAdd(x, y) == Rat(x[1] * y[2] + y[1] * x[2], x[2] * y[2])
RSub(x, y) == Rat(x[1] * y[2] - y[1] * x[2], x[2] * y[2])
RMulInt(x, k) == Rat(x[1] * k, x[2])
RDivInt(x, k) == Rat(x[1], x[2] * k)
RLess(x, y) == x[1] * y[2] < y[1] * x[2]

\* the mutant of RMaxZero: no clamping
RNotClamped(x) == x

\* max(0, x)
RMaxZero(x) == IF RLess(FromInt(0), x) THEN x ELSE FromInt(0)

---------------------------------------------------------------------------
(* Monthly plan allocator *)

EmptyDict == [key \in {} |-> 0]

\* dict[key] = value
DictSet(dict, key, value) ==
    [k \in DOMAIN dict \cup {key} |-> IF k = key THEN value ELSE dict[k]]

\* _get_months_between_dates_including_start_excluding_end
MonthsBetween(start_date, end_date) ==
    LET total_months == (year(end_date) - year(start_date)) * 12
                          + month(end_date) - month(start_date)
    IN  IF total_months > 1 THEN total_months ELSE 1

\* the deposits of one month: the amounts whose date key starts with month_key
MonthlyFact(all_data, month_key) ==
    SumOver(all_data, {k \in DOMAIN all_data : startswith(k, month_key)})

\* the mutant of AdjustedPlan: the overpayment is not deducted
AdjustedPlanIgnoringFact(base, cumulative_fact, month_index) == base

\* the mutant of AdjustedPlan: the overpayment is added to the plan
AdjustedPlanRaisedByOverpayment(base, cumulative_fact, month_index) ==
    LET target_cumulative_plan == RMulInt(base, month_index)
    IN  IF RLess(target_cumulative_plan, cumulative_fact)
        THEN RMaxZero(RAdd(base, RSub(cumulative_fact, target_cumulative_plan)))
        ELSE base

\* the plan of the month with index month_index, given the deposits so far
AdjustedPlan(base, cumulative_fact, month_index) ==
    LET target_cumulative_plan == RMulInt(base, month_index)
    IN  IF RLess(target_cumulative_plan, cumulative_fact)
        THEN RMaxZero(RSub(base, RSub(cumulative_fact, target_cumulative_plan)))
        ELSE base

\* the mutant of IsClosingMonth: no month is taken for the closing month
IsNeverClosingMonth(current_date, end_date) == FALSE

\* the test that skips the closing month
IsClosingMonth(current_date, end_date) ==
    year(current_date) = year(end_date) /\ month(current_date) = month(end_date)

\* the while loop of calculate_monthly_plans
RECURSIVE PlanLoop(_, _, _, _, _, _)
PlanLoop(current_date, month_index, cumulative_fact, monthly_plans, all_data, ctx) ==
    IF ~(current_date < ctx.end_date) THEN monthly_plans
    ELSE IF IsClosingMonth(current_date, ctx.end_date)
    THEN PlanLoop(addMonths(current_date, 1), month_index, cumulative_fact,
                  monthly_plans, all_data, ctx)
    ELSE LET month_key == toStringMonth(current_date)
             index == month_index + 1
             cumulative == RAdd(cumulative_fact,
                                FromInt(MonthlyFact(all_data, month_key)))
         IN  PlanLoop(addMonths(current_date, 1), index, cumulative,
                      DictSet(monthly_plans, month_key,
                              AdjustedPlan(ctx.base, cumulative, index)),
                      all_data, ctx)

\* calculate_monthly_plans over the stored settings and ledger
CalculateMonthlyPlans(settings_table, data_table, current) ==
    LET settings == GetContractSettings(settings_table, current)
        start_date == settings.start_date
        end_date == settings.end_date
        total_amount == settings.contract_amount
    IN  IF total_amount = 0 THEN EmptyDict
        ELSE LET months_count == MonthsBetween(start_date, end_date)
             IN  IF months_count = 0 THEN EmptyDict
                 ELSE PlanLoop(QDate(year(start_date), month(start_date), 1),
                               0, FromInt(0), EmptyDict,
                               GetAllDailyData(data_table),
                               [end_date |-> end_date,
                                base |-> RDivInt(FromInt(total_amount), months_count)])

---------------------------------------------------------------------------
(* Effective rate resolver *)

\* the sort key of a rate_history entry
ChangeDate(rate_change) == fromStringDMY(rate_change.date)

\* the mutant of InsertByDate: x is put before the entries of the same key, as
\* a sort that is not stable may do
InsertByDateBeforeEqual(sorted_list, x) ==
    LET n == Cardinality({i \in DOMAIN sorted_list :
                            ChangeDate(sorted_list[i]) < ChangeDate(x)})
    IN  SubSeq(sorted_list, 1, n) \o <<x>> \o SubSeq(sorted_list, n + 1, Len(sorted_list))

\* x put behind every entry of the sorted list whose key is not greater
InsertByDate(sorted_list, x) ==
    LET n == Cardinality({i \in DOMAIN sorted_list :
                            ChangeDate(sorted_list[i]) <= ChangeDate(x)})
    IN  SubSeq(sorted_list, 1, n) \o <<x>> \o SubSeq(sorted_list, n + 1, Len(sorted_list))

\* the mutant of SortedByDate: the history is used in the order stored
NotSorted(history) == history

\* sorted(rate_history, key = date): stable, ascending
RECURSIVE SortedByDate(_)
SortedByDate(history) ==
    IF history = <<>> THEN <<>>
    ELSE InsertByDate(SortedByDate(SubSeq(history, 1, Len(history) - 1)),
                      history[Len(history)])

\* the for loop: entries at or before the date override, the first later one breaks
RECURSIVE RateScan(_, _, _)
RateScan(rate_history, date, effective_rate) ==
    IF rate_history = <<>> THEN effective_rate
    ELSE IF ChangeDate(rate_history[1]) <= date
    THEN RateScan(Tail(rate_history), date, rate_history[1].rate)
    ELSE effective_rate

\* get_effective_rate_on_date(date, contract_settings)
GetEffectiveRateOnDate(date, settings) ==
    RateScan(SortedByDate(settings.rate_history), date, settings.initial_rate)

---------------------------------------------------------------------------
(* Interest simulator: daily compounding on the deposited funds *)

\* the mutant of AccrualDate: interest accrues on the month's last day
AccrualDateMonthEnd(y, m, contract_day) == QDate(y, m, daysInMonth(QDate(y, m, 1)))

\* the date of accrual in (year, month): the contract's day of month, or the
\* month's last day when the month has no such day
AccrualDate(y, m, contract_day) ==
    IF isValid(QDate(y, m, contract_day))
    THEN QDate(y, m, contract_day)
    ELSE QDate(y, m, daysInMonth(QDate(y, m, 1)))

\* the mutant of TargetPeriodStart: the interest is reported from the first
\* day of the contract on
TargetPeriodStartAtContractStart(accrual_date, start_date) == start_date

\* the first day whose interest is reported for the month
TargetPeriodStart(accrual_date, start_date) ==
    IF addMonths(accrual_date, -1) < start_date
    THEN start_date ELSE addMonths(accrual_date, -1)

\* the mutant of SimulationEndDate: the simulation runs to the accrual date
SimulationEndAtAccrual(accrual_date, current) == accrual_date

\* min(accrual_date, current_date_real)
SimulationEndDate(accrual_date, current) ==
    IF current < accrual_date THEN current ELSE accrual_date

\* (balance * rate / 100.0) / days_in_year, truncated to a whole kopeck
DailyInterest(balance, rate, days_in_year) == (balance * rate) \div (100 * days_in_year)

\* the mutant of OpeningBalance: the simulation starts from the contract amount
OpeningBalanceContractAmount(settings) == settings.contract_amount

\* the balance the simulation starts from
OpeningBalance(settings) == 0

\* the mutant of SimulateDay: the day's deposit is added before the interest
\* of the day is computed
SimulateDayDepositFirst(sim, iter_date, ctx) ==
    LET day_str == toStringISO(iter_date)
        deposit == DictGet(ctx.all_payments, day_str, 0)
        funded == sim.balance + deposit
        accrues == funded > 0
        daily_interest ==
            IF accrues
            THEN DailyInterest(funded,
                               GetEffectiveRateOnDate(iter_date, ctx.settings),
                               daysInYear(iter_date))
            ELSE 0
        counted == accrues /\ iter_date >= ctx.target_period_start
    IN  [balance |-> funded + daily_interest,
         interest |-> sim.interest + (IF counted THEN daily_interest ELSE 0),
         days |-> Append(sim.days,
                         [date |-> iter_date, opening |-> sim.balance,
                          daily_interest |-> daily_interest, deposit |-> deposit,
                          counted |-> counted])]

\* one pass of the while loop: (a) interest on the balance carried into the
\* day, capitalized, and reported when the day is in the target period;
\* (b) the day's deposit added to the balance.  days logs the passes.
SimulateDay(sim, iter_date, ctx) ==
    LET day_str == toStringISO(iter_date)
        accrues == sim.balance > 0
        daily_interest ==
            IF accrues
            THEN DailyInterest(sim.balance,
                               GetEffectiveRateOnDate(iter_date, ctx.settings),
                               daysInYear(iter_date))
            ELSE 0
        counted == accrues /\ iter_date >= ctx.target_period_start
        deposit == DictGet(ctx.all_payments, day_str, 0)
    IN  [balance |-> sim.balance + daily_interest + deposit,
         interest |-> sim.interest + (IF counted THEN daily_interest ELSE 0),
         days |-> Append(sim.days,
                         [date |-> iter_date, opening |-> sim.balance,
                          daily_interest |-> daily_interest, deposit |-> deposit,
                          counted |-> counted])]

\* the passes for iter_date = first, first + 1, ..., final in this order:
\* addDays(1) is the next day number.  The range is halved, and the earlier
\* half (whose log is never empty) evaluated first, to keep the evaluation
\* shallow.
RECURSIVE SimulateDays(_, _, _, _)
SimulateDays(first, final, sim, ctx) ==
    IF first > final THEN sim
    ELSE IF first = final THEN SimulateDay(sim, first, ctx)
    ELSE LET mid == (first + final) \div 2
             earlier == SimulateDays(first, mid, sim, ctx)
         IN  IF Len(earlier.days) > 0
             THEN SimulateDays(mid + 1, final, earlier, ctx)
             ELSE earlier

\* the while loop: iter_date from start_date while iter_date < simulation_end_date
SimulationLoop(iter_date, sim, ctx) ==
    SimulateDays(iter_date, addDays(ctx.simulation_end_date, -1), sim, ctx)

NoSimulation == [balance |-> 0, interest |-> 0, days |-> <<>>]

\* the mutant of MonthlyInterestRun: no interest is computed for a month whose
\* accrual date is after end_date
MonthlyInterestRunWithinContract(settings_table, data_table, current, y, m) ==
    LET settings == GetContractSettings(settings_table, current)
        start_date == settings.start_date
        accrual_date == AccrualDate(y, m, day(start_date))
    IN  IF accrual_date <= start_date \/ accrual_date > settings.end_date
        THEN NoSimulation
        ELSE LET target_period_start == TargetPeriodStart(accrual_date, start_date)
                 simulation_end_date == SimulationEndDate(accrual_date, current)
             IN  IF target_period_start >= simulation_end_date THEN NoSimulation
                 ELSE SimulationLoop(start_date,
                         [balance |-> OpeningBalance(settings), interest |-> 0,
                          days |-> <<>>],
                         [settings |-> settings,
                          all_payments |-> GetAllDailyData(data_table),
                          target_period_start |-> target_period_start,
                          simulation_end_date |-> simulation_end_date])

\* calculate_monthly_interest(year, month) with the log of its simulated days
MonthlyInterestRun(settings_table, data_table, current, y, m) ==
    LET settings == GetContractSettings(settings_table, current)
        start_date == settings.start_date
        accrual_date == AccrualDate(y, m, day(start_date))
    IN  IF accrual_date <= start_date THEN NoSimulation
        ELSE LET target_period_start == TargetPeriodStart(accrual_date, start_date)
                 simulation_end_date == SimulationEndDate(accrual_date, current)
             IN  IF target_period_start >= simulation_end_date THEN NoSimulation
                 ELSE SimulationLoop(start_date,
                         [balance |-> OpeningBalance(settings), interest |-> 0,
                          days |-> <<>>],
                         [settings |-> settings,
                          all_payments |-> GetAllDailyData(data_table),
                          target_period_start |-> target_period_start,
                          simulation_end_date |-> simulation_end_date])

\* the value calculate_monthly_interest returns
CalculateMonthlyInterest(settings_table, data_table, current, y, m) ==
    MonthlyInterestRun(settings_table, data_table, current, y, m).interest

\* the mutant of PastUpToDate: the summation also takes the month after up_to_date
NeverPastUpToDate(current_check_date, up_to_date) == FALSE

\* the mutant of PastUpToDate: the summation stops at a cursor after
\* up_to_date, whatever the month it lies in
PastUpToDateByDay(current_check_date, up_to_date) == current_check_date > up_to_date

\* the break of the summation: the month of the cursor begins after up_to_date
PastUpToDate(current_check_date, up_to_date) ==
    /\ QDate(year(current_check_date), month(current_check_date), 1) > up_to_date
    /\ current_check_date > up_to_date

\* the while loop of get_total_accumulated_interest; months logs the months summed
RECURSIVE TotalInterestLoop(_, _, _)
TotalInterestLoop(current_check_date, acc, ctx) ==
    IF ~(current_check_date <= addMonths(ctx.up_to_date, 1)) THEN acc
    ELSE IF PastUpToDate(current_check_date, ctx.up_to_date) THEN acc
    ELSE LET y == year(current_check_date)
             m == month(current_check_date)
         IN  TotalInterestLoop(addMonths(current_check_date, 1),
                [total_interest |-> acc.total_interest
                    + CalculateMonthlyInterest(ctx.settings_table, ctx.data_table,
                                               ctx.current, y, m),
                 months |-> Append(acc.months, MonthKey(y, m))],
                ctx)

\* get_total_accumulated_interest(up_to_date) with the log of the months summed
TotalInterestRun(settings_table, data_table, current, up_to_date) ==
    LET settings == GetContractSettings(settings_table, current)
        start_date == settings.start_date
    IN  IF up_to_date <= start_date THEN [total_interest |-> 0, months |-> <<>>]
        ELSE TotalInterestLoop(addMonths(start_date, 1),
                               [total_interest |-> 0, months |-> <<>>],
                               [settings_table |-> settings_table,
                                data_table |-> data_table,
                                current |-> current,
                                up_to_date |-> up_to_date])

---------------------------------------------------------------------------
(* Inputs of the store operations *)

\* deposit amounts typed into the input dialog, 0 clearing the day
Amounts == {0, 100000, 250000}

StoreDates == {QDate(2024, 1, 15), QDate(2024, 1, 31), QDate(2024, 2, 10)}

Todays == {QDate(2024, 2, 20), QDate(2024, 3, 31)}

StoreSettings ==
    {Settings(QDate(2024, 1, 15), end, 10, history, amount) :
        end \in {QDate(2024, 3, 1), QDate(2025, 1, 15)},
        history \in {<<>>, <<RateChange(QDate(2024, 2, 1), 12)>>},
        amount \in {300000, 1200000}}

---------------------------------------------------------------------------
(* Operations of the store *)

NoCall == [op |-> "none"]

\* no main window is constructed over the store
NoWindow == [constructed |-> FALSE]

save_daily_amount(date, amount) ==
    /\ daily_data' = SaveDailyAmountTable(daily_data, date, amount)
    /\ last' = [op |-> "save_daily_amount", date |-> date, amount |-> amount,
                replaced |-> Len(RowsWithDate(daily_data, toStringISO(date)))]
    /\ UNCHANGED <<contract_settings, today, window>>

get_daily_amount(date) ==
    /\ last' = [op |-> "get_daily_amount", date |-> date,
                ret |-> GetDailyAmount(daily_data, date)]
    /\ UNCHANGED <<daily_data, contract_settings, today, window>>

get_all_daily_data ==
    /\ last' = [op |-> "get_all_daily_data", ret |-> GetAllDailyData(daily_data)]
    /\ UNCHANGED <<daily_data, contract_settings, today, window>>

save_contract_settings(contract_data) ==
    /\ contract_settings' = SaveContractSettingsTable(contract_settings, contract_data)
    /\ last' = [op |-> "save_contract_settings", contract_data |-> contract_data,
                replaced |-> Len(contract_settings)]
    /\ UNCHANGED <<daily_data, today, window>>

get_contract_settings ==
    /\ last' = [op |-> "get_contract_settings",
                ret |-> GetContractSettings(contract_settings, today)]
    /\ UNCHANGED <<daily_data, contract_settings, today, window>>

\* a fresh database file: init_database creates the empty tables
Init ==
    /\ daily_data = <<>>
    /\ contract_settings = <<>>
    /\ today \in Todays
    /\ last = NoCall
    /\ window = NoWindow

Next ==
    \/ \E date \in StoreDates, amount \in Amounts : save_daily_amount(date, amount)
    \/ \E date \in StoreDates : get_daily_amount(date)
    \/ get_all_daily_data
    \/ \E contract_data \in StoreSettings : save_contract_settings(contract_data)
    \/ get_contract_settings

Spec == Init /\ [][Next]_vars

---------------------------------------------------------------------------
(* Claims about the store, checked under Spec *)

\* the dates the store is probed on: those written and one never written
ProbeDates == StoreDates \cup {QDate(2024, 3, 5)}

\* C8: after any sequence of save_daily_amount calls the ledger holds at most
\* one entry per date and no entry of amount 0; saving 0 for a date leaves no
\* entry of that date.
C8_OneNonZeroEntryPerDate ==
    /\ \A i, j \in DOMAIN daily_data :
          i # j => daily_data[i].date # daily_data[j].date
    /\ \A i \in DOMAIN daily_data : daily_data[i].amount # 0
    /\ (last.op = "save_daily_amount" /\ last.amount = 0)
          => RowsWithDate(daily_data, toStringISO(last.date)) = <<>>

\* an entry was removed by saving 0 while other entries stay
C8_Witness ==
    /\ last.op = "save_daily_amount"
    /\ last.amount = 0
    /\ last.replaced = 1
    /\ daily_data # <<>>

\* C9: after save_daily_amount(d, a), get_daily_amount(d) is a (0 once a = 0,
\* and 0 for a date never written); get_all_daily_data agrees with
\* get_daily_amount on every date; the other dates' entries and the contract
\* settings are unchanged by the save.
C9_SaveThenGet ==
    /\ \A d \in ProbeDates : GetDailyAmount(daily_data, d) = 0
    /\ [](/\ \A d \in ProbeDates :
                DictGet(GetAllDailyData(daily_data), toStringISO(d), 0)
                    = GetDailyAmount(daily_data, d)
          /\ DOMAIN GetAllDailyData(daily_data)
                \subseteq {toStringISO(d) : d \in ProbeDates})
    /\ [][last'.op = "save_daily_amount" =>
            /\ GetDailyAmount(daily_data', last'.date) = last'.amount
            /\ \A d \in ProbeDates \ {last'.date} :
                  GetDailyAmount(daily_data', d) = GetDailyAmount(daily_data, d)
            /\ contract_settings' = contract_settings]_vars

\* a filled day was overwritten while another entry and the settings exist
C9_Witness ==
    /\ last.op = "save_daily_amount"
    /\ last.amount # 0
    /\ last.replaced = 1
    /\ Len(daily_data) >= 2
    /\ contract_settings # <<>>

\* C10: every save_contract_settings leaves exactly one record, the one
\* get_contract_settings then returns, and leaves the ledger unchanged; no
\* other operation changes the stored record.
C10_SingleCurrentRecord ==
    [][IF last'.op = "save_contract_settings"
       THEN /\ Len(contract_settings') = 1
            /\ GetContractSettings(contract_settings', today') = last'.contract_data
            /\ daily_data' = daily_data
       ELSE contract_settings # <<>> =>
              /\ Len(contract_settings') = 1
              /\ GetContractSettings(contract_settings', today')
                    = GetContractSettings(contract_settings, today)]_vars

\* a save replaced an earlier record while the ledger holds deposits
C10_Witness ==
    /\ last.op = "save_contract_settings"
    /\ last.replaced = 1
    /\ daily_data # <<>>

---------------------------------------------------------------------------
(* The plan allocator over drawn settings and ledgers: SpecPlan *)

\* the ledgers of at most MaxLedgerRows deposits, on distinct dates of a set
\* and of amounts of a set, in any order of insertion
Ledgers(dates, amounts) ==
    UNION {{[i \in DOMAIN ds |-> Row(toStringISO(ds[i]), as[i])] :
               as \in [DOMAIN ds -> amounts]} :
           ds \in DistinctSeqs(dates, MaxLedgerRows)}

PlanDates ==
    {QDate(2023, 12, 31), QDate(2024, 1, 15), QDate(2024, 1, 31),
     QDate(2024, 2, 10), QDate(2024, 3, 5)}

PlanSettings ==
    {Settings(start, end, 0, <<>>, amount) :
        start \in {QDate(2024, 1, 1), QDate(2024, 1, 15)},
        end \in {QDate(2024, 1, 10), QDate(2024, 1, 20), QDate(2024, 3, 1),
                 QDate(2024, 4, 10), QDate(2025, 1, 1)},
        amount \in {0, 1000000, 1200000}}

calculate_monthly_plans ==
    /\ last' = [op |-> "calculate_monthly_plans",
                ret |-> CalculateMonthlyPlans(contract_settings, daily_data, today)]
    /\ UNCHANGED <<daily_data, contract_settings, today, window>>

InitPlan ==
    /\ daily_data \in Ledgers(PlanDates, Amounts \ {0})
    /\ contract_settings \in
          {<<>>} \cup {<<SettingsRow(contract_data)>> : contract_data \in PlanSettings}
    /\ today = QDate(2024, 2, 20)
    /\ last = NoCall
    /\ window = NoWindow

NextPlan == calculate_monthly_plans

SpecPlan == InitPlan /\ [][NextPlan]_vars

---------------------------------------------------------------------------
(* Claims about the plan, checked under SpecPlan *)

\* the settings and the plan of the state
Cur == GetContractSettings(contract_settings, today)

\* months counted from year 0
MonthNumber(date) == year(date) * 12 + month(date) - 1

KeyOfMonthNumber(n) == MonthKey(n \div 12, (n % 12) + 1)

\* the month keys from the month of start_date up to, not including, that of end_date
ContractMonthKeys ==
    {KeyOfMonthNumber(n) : n \in MonthNumber(Cur.start_date) .. MonthNumber(Cur.end_date) - 1}

\* the key of the k-th month of the contract, k = 1 for the month of start_date
KthMonthKey(k) == KeyOfMonthNumber(MonthNumber(Cur.start_date) + k - 1)

\* the deposits dated in the first k months of the contract
RECURSIVE SumAmounts(_)
SumAmounts(rows) ==
    IF rows = <<>> THEN 0 ELSE rows[1].amount + SumAmounts(Tail(rows))

CumulativeDeposits(k) ==
    SumAmounts(SelectSeq(daily_data, LAMBDA r :
        MonthNumber(fromStringISO(r.date)) - MonthNumber(Cur.start_date) \in 0 .. k - 1))

PlanReturned == last.op = "calculate_monthly_plans"

ValidContract == Cur.start_date < Cur.end_date /\ Cur.contract_amount > 0

RECURSIVE RSumOver(_, _)
RSumOver(dict, keys) ==
    IF keys = {} THEN FromInt(0)
    ELSE LET k == CHOOSE k \in keys : TRUE
         IN  RAdd(dict[k], RSumOver(dict, keys \ {k}))

\* C2 as stated: with an empty ledger every included month gets A/N, there
\* are exactly N = max(1, month difference) included months, and the plan
\* sums to A.
C2_Original ==
    (PlanReturned /\ ValidContract /\ daily_data = <<>>) =>
        LET N == MonthsBetween(Cur.start_date, Cur.end_date)
        IN  /\ \A key \in DOMAIN last.ret :
                  last.ret[key] = Rat(Cur.contract_amount, N)
            /\ Cardinality(DOMAIN last.ret) = N
            /\ RSumOver(last.ret, DOMAIN last.ret) = FromInt(Cur.contract_amount)

BaseAmount ==
    RDivInt(FromInt(Cur.contract_amount), MonthsBetween(Cur.start_date, Cur.end_date))

Overpaid(k) == RLess(RMulInt(BaseAmount, k), FromInt(CumulativeDeposits(k)))

\* C3 as stated: when the deposits of months 1..k exceed base * k and month
\* k+1 is included, the plan of month k+1 is below base and not negative.
C3_Original ==
    (PlanReturned /\ ValidContract) =>
        \A k \in 1 .. Cardinality(DOMAIN last.ret) - 1 :
            Overpaid(k) =>
                /\ RLess(last.ret[KthMonthKey(k + 1)], BaseAmount)
                /\ ~RLess(last.ret[KthMonthKey(k + 1)], FromInt(0))

\* C3 amended: when the deposits of months 1..k exceed base * k, the plan of
\* month k itself is below base and not negative.
C3_OverpaidMonthBelowBase ==
    (PlanReturned /\ ValidContract) =>
        \A k \in 1 .. Cardinality(DOMAIN last.ret) :
            Overpaid(k) =>
                /\ RLess(last.ret[KthMonthKey(k)], BaseAmount)
                /\ ~RLess(last.ret[KthMonthKey(k)], FromInt(0))

\* month 1 is overpaid by less than base, month 2 follows and is not overpaid
C3_Witness ==
    /\ PlanReturned /\ ValidContract
    /\ Cardinality(DOMAIN last.ret) >= 2
    /\ Overpaid(1) /\ ~Overpaid(2)
    /\ RLess(FromInt(0), last.ret[KthMonthKey(1)])

---------------------------------------------------------------------------
(* The rate resolver over drawn rate histories: SpecRate *)

\* all sequences of at most n elements of S
RECURSIVE SeqsUpTo(_, _)
SeqsUpTo(S, n) ==
    IF n = 0 THEN {<<>>}
    ELSE LET shorter == SeqsUpTo(S, n - 1)
         IN  shorter \cup {Append(s, x) : s \in shorter, x \in S}

RateChangeDates == {QDate(2023, 1, 1), QDate(2023, 3, 1), QDate(2023, 6, 1)}

RateHistories ==
    SeqsUpTo({RateChange(d, r) : d \in RateChangeDates, r \in {5, 7}}, MaxRateChanges)

RateSettings ==
    {Settings(QDate(2022, 12, 1), QDate(2024, 1, 1), 3, history, 1200000) :
        history \in RateHistories}

RateQueryDates ==
    {QDate(2022, 12, 31), QDate(2023, 1, 1), QDate(2023, 3, 1),
     QDate(2023, 5, 31), QDate(2023, 6, 1), QDate(2023, 12, 31)}

get_effective_rate_on_date(date) ==
    /\ last' = [op |-> "get_effective_rate_on_date", date |-> date,
                ret |-> GetEffectiveRateOnDate(date,
                            GetContractSettings(contract_settings, today))]
    /\ UNCHANGED <<daily_data, contract_settings, today, window>>

InitRate ==
    /\ daily_data = <<>>
    /\ contract_settings \in {<<SettingsRow(contract_data)>> : contract_data \in RateSettings}
    /\ today = QDate(2023, 12, 31)
    /\ last = NoCall
    /\ window = NoWindow

NextRate == \E date \in RateQueryDates : get_effective_rate_on_date(date)

SpecRate == InitRate /\ [][NextRate]_vars

---------------------------------------------------------------------------
(* Claims about the rate resolver, checked under SpecRate *)

RateReturned == last.op = "get_effective_rate_on_date"

DistinctChangeDates ==
    \A i, j \in DOMAIN Cur.rate_history :
        i # j => Cur.rate_history[i].date # Cur.rate_history[j].date

\* the entries in force on a date: dated on or before it
InForce(date) ==
    {i \in DOMAIN Cur.rate_history : ChangeDate(Cur.rate_history[i]) <= date}

\* C4: with pairwise distinct effective dates, in any order, the rate returned
\* for D is that of the entry with the greatest effective date <= D (an entry
\* dated D applies on D), and initial_rate when no entry is dated <= D.
C4_LatestEntryAtOrBefore ==
    (RateReturned /\ DistinctChangeDates) =>
        IF InForce(last.date) = {}
        THEN last.ret = Cur.initial_rate
        ELSE \E i \in InForce(last.date) :
                /\ \A j \in InForce(last.date) :
                      ChangeDate(Cur.rate_history[j]) <= ChangeDate(Cur.rate_history[i])
                /\ last.ret = Cur.rate_history[i].rate

\* a history stored out of date order, asked between its two dates
C4_Witness ==
    /\ RateReturned /\ DistinctChangeDates
    /\ Len(Cur.rate_history) = 2
    /\ ChangeDate(Cur.rate_history[2]) <= last.date
    /\ last.date < ChangeDate(Cur.rate_history[1])
    /\ last.ret = Cur.rate_history[2].rate
    /\ last.ret # Cur.rate_history[1].rate

---------------------------------------------------------------------------
(* The interest simulator over drawn settings and ledgers: SpecInterest *)

InterestDates == {QDate(2023, 12, 31), QDate(2024, 1, 15), QDate(2024, 2, 10)}

InterestSettings ==
    {Settings(start, QDate(2024, 6, 30), rate, history, 1200000) :
        start \in {QDate(2023, 12, 31), QDate(2024, 1, 15), QDate(2024, 1, 31)},
        rate \in {0, 10},
        history \in {<<>>, <<RateChange(QDate(2024, 2, 1), 12)>>,
                     <<RateChange(QDate(2024, 1, 20), 0 - 5)>>}}

InterestTodays == {QDate(2024, 1, 20), QDate(2024, 3, 5)}

InterestMonths == {<<2023, 12>>, <<2024, 1>>, <<2024, 2>>, <<2024, 3>>}

UpToDates ==
    {QDate(2024, 1, 10), QDate(2024, 1, 20), QDate(2024, 2, 15), QDate(2024, 3, 31)}

\* the mutant of calculate_monthly_interest: the interest computed is also
\* entered in the ledger on the first day of the month
calculate_monthly_interest_capitalizing(y, m) ==
    /\ last' = LET run == MonthlyInterestRun(contract_settings, daily_data, today, y, m)
               IN  [op |-> "calculate_monthly_interest", year |-> y, month |-> m,
                    ret |-> run.interest, days |-> run.days]
    /\ daily_data' = SaveDailyAmountTable(daily_data, QDate(y, m, 1),
                          MonthlyInterestRun(contract_settings, daily_data, today,
                                             y, m).interest + 1)
    /\ UNCHANGED <<contract_settings, today, window>>

calculate_monthly_interest(y, m) ==
    /\ last' = LET run == MonthlyInterestRun(contract_settings, daily_data, today, y, m)
               IN  [op |-> "calculate_monthly_interest", year |-> y, month |-> m,
                    ret |-> run.interest, days |-> run.days]
    /\ UNCHANGED <<daily_data, contract_settings, today, window>>

get_total_accumulated_interest(up_to_date) ==
    /\ last' = LET run == TotalInterestRun(contract_settings, daily_data, today,
                                           up_to_date)
               IN  [op |-> "get_total_accumulated_interest",
                    up_to_date |-> up_to_date,
                    ret |-> run.total_interest, months |-> run.months]
    /\ UNCHANGED <<daily_data, contract_settings, today, window>>

InitInterest ==
    /\ daily_data \in Ledgers(InterestDates, {100000})
    /\ contract_settings \in
          {<<SettingsRow(contract_data)>> : contract_data \in InterestSettings}
    /\ today \in InterestTodays
    /\ last = NoCall
    /\ window = NoWindow

NextInterest ==
    \/ \E ym \in InterestMonths : calculate_monthly_interest(ym[1], ym[2])
    \/ \E up_to_date \in UpToDates : get_total_accumulated_interest(up_to_date)

SpecInterest == InitInterest /\ [][NextInterest]_vars

---------------------------------------------------------------------------
(* Claims about the interest simulator, checked under SpecInterest *)

InterestReturned == last.op = "calculate_monthly_interest"

NonNegativeInputs ==
    /\ \A i \in DOMAIN daily_data : daily_data[i].amount >= 0
    /\ Cur.initial_rate >= 0
    /\ \A i \in DOMAIN Cur.rate_history : Cur.rate_history[i].rate >= 0

\* C5: with an empty ledger calculate_monthly_interest returns 0 for every
\* month whatever the rates; with non-negative deposits and non-negative
\* rates it never returns a negative value.
C5_InterestZeroOrNonNegative ==
    InterestReturned =>
        /\ daily_data = <<>> => last.ret = 0
        /\ NonNegativeInputs => last.ret >= 0

\* deposits under non-negative rates earned interest in the month asked
C5_Witness ==
    /\ InterestReturned
    /\ daily_data # <<>>
    /\ NonNegativeInputs
    /\ last.ret > 0

\* the log of the same simulation over the ledger without the deposit of a date
DaysWithoutDeposit(date) ==
    MonthlyInterestRun(contract_settings,
                       DeleteWhereDate(daily_data, toStringISO(date)),
                       today, last.year, last.month).days

\* C6: on each simulated day the interest is computed on the balance carried
\* over from the day before (deposits and capitalized interest) and the day's
\* deposit is added only afterwards: a deposit of day D changes nothing in the
\* interest of day D and raises the interest of day D+1 when the rate is
\* positive.
C6_InterestBeforeDeposit ==
    InterestReturned =>
        \A i \in DOMAIN last.days :
            LET today_ == last.days[i]
                carried == IF i = 1 THEN 0
                           ELSE last.days[i - 1].opening
                                  + last.days[i - 1].daily_interest
                                  + last.days[i - 1].deposit
            IN  /\ today_.opening = carried
                /\ today_.deposit = GetDailyAmount(daily_data, today_.date)
                /\ today_.daily_interest =
                      (IF carried > 0
                       THEN DailyInterest(carried,
                                GetEffectiveRateOnDate(today_.date, Cur),
                                daysInYear(today_.date))
                       ELSE 0)
                /\ today_.deposit > 0 =>
                      LET without == DaysWithoutDeposit(today_.date)
                      IN  /\ without[i].daily_interest = today_.daily_interest
                          /\ (i < Len(last.days)
                              /\ GetEffectiveRateOnDate(last.days[i + 1].date, Cur) > 0)
                                => last.days[i + 1].daily_interest
                                      > without[i + 1].daily_interest

\* a deposit made on the first simulated day earned nothing that day and
\* earned interest the day after
C6_Witness ==
    /\ InterestReturned
    /\ Len(last.days) >= 2
    /\ last.days[1].deposit > 0
    /\ last.days[1].daily_interest = 0
    /\ last.days[2].daily_interest > 0

TotalReturned == last.op = "get_total_accumulated_interest"

\* the months from that of start_date + 1 month through that of up_to_date
MonthsToSum(up_to_date) ==
    LET first == MonthNumber(addMonths(Cur.start_date, 1))
        n == MonthNumber(up_to_date) - first + 1
    IN  [i \in 1 .. (IF n > 0 THEN n ELSE 0) |-> KeyOfMonthNumber(first + i - 1)]

RECURSIVE SumMonthlyInterest(_)
SumMonthlyInterest(months) ==
    IF months = <<>> THEN 0
    ELSE CalculateMonthlyInterest(contract_settings, daily_data, today,
                                  months[1][1], months[1][2])
           + SumMonthlyInterest(Tail(months))

\* C7: get_total_accumulated_interest(up_to_date) returns 0 when up_to_date <=
\* start_date; otherwise it sums calculate_monthly_interest over each month
\* once, from the month of start_date + 1 month through the month of
\* up_to_date, and over no later month.
C7_TotalIsSumOfMonths ==
    TotalReturned =>
        IF last.up_to_date <= Cur.start_date
        THEN last.ret = 0 /\ last.months = <<>>
        ELSE /\ last.months = MonthsToSum(last.up_to_date)
             /\ last.ret = SumMonthlyInterest(MonthsToSum(last.up_to_date))

\* several months were summed, the month after up_to_date would have added more
C7_Witness ==
    /\ TotalReturned
    /\ Len(last.months) >= 2
    /\ last.ret > 0
    /\ LET after == KeyOfMonthNumber(MonthNumber(last.up_to_date) + 1)
       IN  CalculateMonthlyInterest(contract_settings, daily_data, today,
                                    after[1], after[2]) > 0

---------------------------------------------------------------------------
(* Saving and reloading the settings record: SpecSettings *)

\* records with histories of up to MaxRateChanges entries in any order
RoundTripSettings ==
    {Settings(start, QDate(2025, 2, 28), rate, history, amount) :
        start \in {QDate(2024, 2, 29)},
        rate \in {0, 10},
        history \in RateHistories,
        amount \in {1200000}}

InitSettings ==
    /\ daily_data = <<>>
    /\ contract_settings = <<>>
    /\ today = QDate(2024, 2, 20)
    /\ last = NoCall
    /\ window = NoWindow

NextSettings ==
    \/ \E contract_data \in RoundTripSettings : save_contract_settings(contract_data)
    \/ get_contract_settings

SpecSettings == InitSettings /\ [][NextSettings]_vars

\* C11: save_contract_settings(S) followed by get_contract_settings() returns
\* the start_date, end_date, initial_rate and contract_amount of S and a
\* rate_history with the same entries, dates and rates, in the same order.
C11_SettingsRoundTrip ==
    [][(last.op = "save_contract_settings" /\ last'.op = "get_contract_settings") =>
          LET S == last.contract_data
              got == last'.ret
          IN  /\ got.start_date = S.start_date
              /\ got.end_date = S.end_date
              /\ got.initial_rate = S.initial_rate
              /\ got.contract_amount = S.contract_amount
              /\ Len(got.rate_history) = Len(S.rate_history)
              /\ \A i \in DOMAIN S.rate_history :
                    /\ got.rate_history[i].date = S.rate_history[i].date
                    /\ got.rate_history[i].rate = S.rate_history[i].rate]_vars

\* a record saved over an earlier one was reloaded, its history of two entries
\* stored out of date order and with different rates
C11_Witness ==
    /\ last.op = "get_contract_settings"
    /\ Len(contract_settings) = 1
    /\ Len(last.ret.rate_history) = 2
    /\ ChangeDate(last.ret.rate_history[2]) < ChangeDate(last.ret.rate_history[1])
    /\ last.ret.rate_history[1].rate # last.ret.rate_history[2].rate
    /\ isValid(last.ret.start_date) /\ isValid(last.ret.end_date)

---------------------------------------------------------------------------
(* Summaries computed over the store *)

\* the mutant of MaxZero: no clamping
NotClamped(n) == n

\* max(0, n)
MaxZero(n) == IF n > 0 THEN n ELSE 0

\* get_remaining_contract_amount: the principal still to be paid in
GetRemainingContractAmount(settings_table, data_table, current) ==
    LET settings == GetContractSettings(settings_table, current)
        total_contract_amount == settings.contract_amount
        total_fact == SumValues(GetAllDailyData(data_table))
    IN  MaxZero(total_contract_amount - total_fact)

\* the mutant of GetAdjustedMonthlyPlan: the closing month is given the
\* remaining contract amount
GetAdjustedMonthlyPlanClosingRemainder(settings_table, data_table, current, y, m) ==
    LET end_date == GetContractSettings(settings_table, current).end_date
    IN  IF y = year(end_date) /\ m = month(end_date)
        THEN FromInt(GetRemainingContractAmount(settings_table, data_table, current))
        ELSE DictGet(CalculateMonthlyPlans(settings_table, data_table, current),
                     MonthKey(y, m), FromInt(0))

\* get_adjusted_monthly_plan(year, month): both branches read the plan's entry
GetAdjustedMonthlyPlan(settings_table, data_table, current, y, m) ==
    LET settings == GetContractSettings(settings_table, current)
        end_date == settings.end_date
        month_key == MonthKey(y, m)
        monthly_plans == CalculateMonthlyPlans(settings_table, data_table, current)
    IN  IF y = year(end_date) /\ m = month(end_date)
        THEN DictGet(monthly_plans, month_key, FromInt(0))
        ELSE DictGet(monthly_plans, month_key, FromInt(0))

\* a <= b for texts of zero-padded numeric fields, as SQLite compares TEXT:
\* field by field, a proper prefix being smaller
RECURSIVE TextLessEq(_, _)
TextLessEq(a, b) ==
    IF a = <<>> THEN TRUE
    ELSE IF b = <<>> THEN FALSE
    ELSE IF a[1] # b[1] THEN a[1] < b[1]
    ELSE TextLessEq(Tail(a), Tail(b))

\* the mutant of SumAmountBetween: the sum is not limited to the two dates
SumAmountOfAllDates(table, start_date_str, end_date_str) ==
    SumOver([i \in DOMAIN table |-> table[i].amount], DOMAIN table)

\* SELECT SUM(amount) FROM daily_data WHERE date BETWEEN ? AND ?, None read as 0
SumAmountBetween(table, start_date_str, end_date_str) ==
    LET rows == SelectSeq(table, LAMBDA r : /\ TextLessEq(start_date_str, r.date)
                                            /\ TextLessEq(r.date, end_date_str))
    IN  IF rows = <<>> THEN 0 ELSE SumOver([i \in DOMAIN rows |-> rows[i].amount],
                                           DOMAIN rows)

\* get_monthly_summary(year, month)
GetMonthlySummary(settings_table, data_table, current, y, m) ==
    LET month_key == MonthKey(y, m)
        monthly_plans == CalculateMonthlyPlans(settings_table, data_table, current)
        plan == DictGet(monthly_plans, month_key, FromInt(0))
        start_date_str == <<y, m, 1>>
        end_date == addDays(addMonths(QDate(y, m, 1), 1), -1)
        end_date_str == toStringISO(end_date)
        fact == SumAmountBetween(data_table, start_date_str, end_date_str)
        interest == CalculateMonthlyInterest(settings_table, data_table, current, y, m)
    IN  [plan |-> plan, fact |-> fact, remaining |-> RSub(plan, FromInt(fact)),
         interest |-> interest]

---------------------------------------------------------------------------
(* The engine queries over drawn settings and ledgers: SpecEngine *)

get_remaining_contract_amount ==
    /\ last' = [op |-> "get_remaining_contract_amount",
                ret |-> GetRemainingContractAmount(contract_settings, daily_data, today)]
    /\ UNCHANGED <<daily_data, contract_settings, today, window>>

get_adjusted_monthly_plan(y, m) ==
    /\ last' = [op |-> "get_adjusted_monthly_plan", year |-> y, month |-> m,
                ret |-> GetAdjustedMonthlyPlan(contract_settings, daily_data, today, y, m)]
    /\ UNCHANGED <<daily_data, contract_settings, today, window>>

get_monthly_summary(y, m) ==
    /\ last' = [op |-> "get_monthly_summary", year |-> y, month |-> m,
                ret |-> GetMonthlySummary(contract_settings, daily_data, today, y, m)]
    /\ UNCHANGED <<daily_data, contract_settings, today, window>>

EngineDates == {QDate(2024, 1, 15), QDate(2024, 1, 31), QDate(2024, 3, 5)}

EngineSettings ==
    {Settings(QDate(2024, 1, 15), end, 10, history, amount) :
        end \in {QDate(2024, 1, 25), QDate(2024, 3, 10)},
        history \in {<<>>, <<RateChange(QDate(2024, 2, 1), 12)>>},
        amount \in {250000, 1200000}}

\* the month of start_date, the closing month and a month not begun today
EngineMonths == {<<2024, 1>>, <<2024, 3>>, <<2024, 4>>}

EngineUpToDates == {QDate(2024, 2, 15), QDate(2024, 4, 20)}

InitEngine ==
    /\ daily_data \in Ledgers(EngineDates, {250000})
    /\ contract_settings \in
          {<<>>} \cup {<<SettingsRow(contract_data)>> : contract_data \in EngineSettings}
    /\ today = QDate(2024, 3, 31)
    /\ last = NoCall
    /\ window = NoWindow

NextEngine ==
    \/ get_contract_settings
    \/ calculate_monthly_plans
    \/ \E ym \in EngineMonths : get_adjusted_monthly_plan(ym[1], ym[2])
    \/ \E ym \in EngineMonths : calculate_monthly_interest(ym[1], ym[2])
    \/ \E up_to_date \in EngineUpToDates : get_total_accumulated_interest(up_to_date)
    \/ \E ym \in EngineMonths : get_monthly_summary(ym[1], ym[2])
    \/ get_remaining_contract_amount

SpecEngine == InitEngine /\ [][NextEngine]_vars

---------------------------------------------------------------------------
(* Claims about the engine queries, checked under SpecEngine *)

NoSettingsSaved == contract_settings = <<>>

\* the same day of the next year
OneYearAfter(date) == QDate(year(date) + 1, month(date), day(date))

\* the deposits dated in the month (y, m)
DepositsOfMonth(y, m) ==
    SumAmounts(SelectSeq(daily_data, LAMBDA r :
        LET date == fromStringISO(r.date) IN year(date) = y /\ month(date) = m))

\* what C12 says of every query but get_monthly_summary
DefaultsGiveZero ==
    /\ last.op = "get_contract_settings" =>
          last.ret = [start_date |-> today, end_date |-> OneYearAfter(today),
                      initial_rate |-> 0, rate_history |-> <<>>,
                      contract_amount |-> 0]
    /\ last.op = "calculate_monthly_plans" => DOMAIN last.ret = {}
    /\ last.op = "get_adjusted_monthly_plan" => last.ret = FromInt(0)
    /\ last.op \in {"calculate_monthly_interest", "get_total_accumulated_interest",
                     "get_remaining_contract_amount"} => last.ret = 0

\* C12 as stated: with no record saved get_contract_settings returns the
\* defaults, the plan is empty and every engine query returns 0, the monthly
\* summary included.
C12_Original ==
    NoSettingsSaved =>
        /\ DefaultsGiveZero
        /\ last.op = "get_monthly_summary" =>
              last.ret = [plan |-> FromInt(0), fact |-> 0, remaining |-> FromInt(0),
                          interest |-> 0]

\* C12 amended: with no record saved get_contract_settings returns the
\* defaults, the plan is empty, and the plan, interest and remaining-amount
\* queries return 0; get_monthly_summary returns plan 0 and interest 0, with
\* fact the deposits of the month and remaining their negation.
C12_DefaultsWhenNothingSaved ==
    NoSettingsSaved =>
        /\ DefaultsGiveZero
        /\ last.op = "get_monthly_summary" =>
              last.ret = [plan |-> FromInt(0),
                          fact |-> DepositsOfMonth(last.year, last.month),
                          remaining |-> FromInt(0 - DepositsOfMonth(last.year, last.month)),
                          interest |-> 0]

\* the summary of a month with deposits was asked with no record saved
C12_Witness ==
    /\ NoSettingsSaved
    /\ last.op = "get_monthly_summary"
    /\ last.ret.fact > 0

\* the settings drawn that differ from the stored ones in dates or rates only
SameAmountSettings ==
    {other \in EngineSettings : other.contract_amount = Cur.contract_amount}

\* C13: get_remaining_contract_amount returns max(0, contract_amount - sum of
\* all deposits): never negative, 0 once the deposits reach or exceed the
\* contract amount, and the same whatever the rates and the contract dates.
C13_RemainingIsClampedDifference ==
    last.op = "get_remaining_contract_amount" =>
        LET paid == SumAmounts(daily_data)
        IN  /\ last.ret = (IF Cur.contract_amount - paid > 0
                           THEN Cur.contract_amount - paid ELSE 0)
            /\ last.ret >= 0
            /\ paid >= Cur.contract_amount => last.ret = 0
            /\ \A other \in SameAmountSettings :
                  GetRemainingContractAmount(<<SettingsRow(other)>>, daily_data, today)
                      = last.ret

\* the deposits exceed a positive contract amount
C13_Witness ==
    /\ last.op = "get_remaining_contract_amount"
    /\ Cur.contract_amount > 0
    /\ SumAmounts(daily_data) > Cur.contract_amount
    /\ last.ret = 0
    /\ Cardinality(SameAmountSettings) >= 2

\* C14: get_monthly_summary(year, month) returns plan = the entry of
\* calculate_monthly_plans for the month (0 without an entry), fact = the sum
\* of the deposits dated in the month, remaining = plan - fact (negative when
\* the month is over-paid) and interest = calculate_monthly_interest(year, month).
C14_SummaryBundlesPlanFactInterest ==
    last.op = "get_monthly_summary" =>
        LET plans == CalculateMonthlyPlans(contract_settings, daily_data, today)
            key == MonthKey(last.year, last.month)
            plan == IF key \in DOMAIN plans THEN plans[key] ELSE FromInt(0)
            fact == DepositsOfMonth(last.year, last.month)
        IN  /\ last.ret.plan = plan
            /\ last.ret.fact = fact
            /\ last.ret.remaining = RSub(plan, FromInt(fact))
            /\ RLess(plan, FromInt(fact)) => RLess(last.ret.remaining, FromInt(0))
            /\ last.ret.interest =
                  CalculateMonthlyInterest(contract_settings, daily_data, today,
                                           last.year, last.month)

\* the summary of a planned month with deposits, while the ledger also holds
\* deposits of another month
C14_Witness ==
    /\ last.op = "get_monthly_summary"
    /\ MonthKey(last.year, last.month)
          \in DOMAIN CalculateMonthlyPlans(contract_settings, daily_data, today)
    /\ RLess(FromInt(0), last.ret.plan)
    /\ last.ret.fact > 0
    /\ last.ret.fact < SumAmounts(daily_data)

\* the month asked is the month of end_date
ClosingMonthAsked ==
    last.year = year(Cur.end_date) /\ last.month = month(Cur.end_date)

\* C15: with start_date < end_date the month of end_date has no plan entry and
\* get_adjusted_monthly_plan(end_date.year, end_date.month) returns 0, also
\* when deposits are dated in that month.
C15_ClosingMonthHasNoPlan ==
    Cur.start_date < Cur.end_date =>
        /\ last.op = "calculate_monthly_plans" =>
              toStringMonth(Cur.end_date) \notin DOMAIN last.ret
        /\ (last.op = "get_adjusted_monthly_plan" /\ ClosingMonthAsked) =>
              /\ last.ret = FromInt(0)
              /\ MonthKey(last.year, last.month) \notin
                    DOMAIN CalculateMonthlyPlans(contract_settings, daily_data, today)

\* the closing month was asked while it holds a deposit, the contract is not
\* paid in full and earlier months have a plan
C15_Witness ==
    /\ Cur.start_date < Cur.end_date
    /\ last.op = "get_adjusted_monthly_plan" /\ ClosingMonthAsked
    /\ DepositsOfMonth(last.year, last.month) > 0
    /\ SumAmounts(daily_data) < Cur.contract_amount
    /\ CalculateMonthlyPlans(contract_settings, daily_data, today) # EmptyDict

EngineQueries ==
    {"calculate_monthly_plans", "get_adjusted_monthly_plan",
     "calculate_monthly_interest", "get_total_accumulated_interest",
     "get_monthly_summary", "get_remaining_contract_amount"}

\* a call without its result: the operation and its arguments
CallOf(call) == [f \in DOMAIN call \ {"ret", "days", "months"} |-> call[f]]

\* the result of making the call again on a store
SecondCall(call, settings_table, data_table, current) ==
    CASE call.op = "calculate_monthly_plans" ->
            CalculateMonthlyPlans(settings_table, data_table, current)
      [] call.op = "get_adjusted_monthly_plan" ->
            GetAdjustedMonthlyPlan(settings_table, data_table, current,
                                   call.year, call.month)
      [] call.op = "calculate_monthly_interest" ->
            CalculateMonthlyInterest(settings_table, data_table, current,
                                     call.year, call.month)
      [] call.op = "get_total_accumulated_interest" ->
            TotalInterestRun(settings_table, data_table, current,
                             call.up_to_date).total_interest
      [] call.op = "get_monthly_summary" ->
            GetMonthlySummary(settings_table, data_table, current,
                              call.year, call.month)
      [] call.op = "get_remaining_contract_amount" ->
            GetRemainingContractAmount(settings_table, data_table, current)

---------------------------------------------------------------------------
(* The settings dialog: texts typed into its fields, validation and saving *)

\* A field's text is the sequence of its characters.
DigitValue ==
    [c \in {"0", "1", "2", "3", "4", "5", "6", "7", "8", "9"} |->
        CASE c = "0" -> 0 [] c = "1" -> 1 [] c = "2" -> 2 [] c = "3" -> 3
          [] c = "4" -> 4 [] c = "5" -> 5 [] c = "6" -> 6 [] c = "7" -> 7
          [] c = "8" -> 8 [] c = "9" -> 9]

\* the values of a text of digits
DigitValues(text) == [i \in DOMAIN text |-> DigitValue[text[i]]]

\* text.replace(',', '.')
ReplaceComma(text) == [i \in DOMAIN text |-> IF text[i] = "," THEN "." ELSE text[i]]

\* digits without their leading zeros
RECURSIVE StripLeadingZeros(_)
StripLeadingZeros(digits) ==
    IF digits # <<>> /\ digits[1] = 0 THEN StripLeadingZeros(Tail(digits)) ELSE digits

\* digits without their trailing zeros
RECURSIVE StripTrailingZeros(_)
StripTrailingZeros(digits) ==
    IF digits # <<>> /\ digits[Len(digits)] = 0
    THEN StripTrailingZeros(SubSeq(digits, 1, Len(digits) - 1)) ELSE digits

\* the exception float raises, in place of a value
ValueError == [raised |-> "ValueError"]

\* float(text) of a decimal literal: an optional sign, digits, at most one
\* point, at least one digit; the number is kept as its sign, the digits of
\* its whole part and the digits of its fraction.  Any other text raises
\* ValueError.
Float(text) ==
    LET signed == text # <<>> /\ text[1] \in {"-", "+"}
        unsigned == IF signed THEN Tail(text) ELSE text
        points == {i \in DOMAIN unsigned : unsigned[i] = "."}
        point == IF points = {} THEN Len(unsigned) + 1 ELSE CHOOSE i \in points : TRUE
        well_formed ==
            /\ \A i \in DOMAIN unsigned : unsigned[i] \in DOMAIN DigitValue \cup {"."}
            /\ Cardinality(points) <= 1
            /\ Len(unsigned) - Cardinality(points) >= 1
    IN  IF ~well_formed THEN ValueError
        ELSE [neg |-> signed /\ text[1] = "-",
              whole |-> StripLeadingZeros(DigitValues(SubSeq(unsigned, 1, point - 1))),
              frac |-> StripTrailingZeros(
                           DigitValues(SubSeq(unsigned, point + 1, Len(unsigned))))]

IsZero(x) == x.whole = <<>> /\ x.frac = <<>>

\* x < 0
IsNegative(x) == x.neg /\ ~IsZero(x)

\* a > b for whole numbers given by their digits
DigitsGreater(a, b) ==
    \/ Len(a) > Len(b)
    \/ /\ Len(a) = Len(b)
       /\ \E i \in DOMAIN a : a[i] > b[i] /\ \A j \in 1 .. i - 1 : a[j] = b[j]

\* the digits of 10^n
PowerOfTen(n) == [i \in 1 .. n + 1 |-> IF i = 1 THEN 1 ELSE 0]

\* x > 10^n
GreaterThanPowerOfTen(x, n) ==
    /\ ~x.neg
    /\ \/ DigitsGreater(x.whole, PowerOfTen(n))
       \/ x.whole = PowerOfTen(n) /\ x.frac # <<>>

\* the whole number of given digits
RECURSIVE WholeValue(_)
WholeValue(digits) ==
    IF digits = <<>> THEN 0
    ELSE 10 * WholeValue(SubSeq(digits, 1, Len(digits) - 1)) + digits[Len(digits)]

\* a float as an amount of the store: hundredths (kopecks), two decimals kept
ToAmount(x) ==
    LET hundredths == 100 * WholeValue(x.whole)
                        + (IF Len(x.frac) >= 1 THEN 10 * x.frac[1] ELSE 0)
                        + (IF Len(x.frac) >= 2 THEN x.frac[2] ELSE 0)
    IN  IF x.neg THEN 0 - hundredths ELSE hundredths

\* a float as a rate of the store: per cent, a whole number where it is one
ToRate(x) ==
    LET r == Rat(ToAmount(x), 100) IN IF r[2] = 1 THEN r[1] ELSE r

\* the contents of the dialog's fields
Form(start, end, rate_text, amount_text, rate_table) ==
    [start_date |-> start, end_date |-> end, initial_rate_edit |-> rate_text,
     amount_edit |-> amount_text, rate_table |-> rate_table]

\* a row of the rate table: the texts of its two cells
RateTableRow(date, rate_text) == [date |-> toStringDMY(date), rate |-> rate_text]

\* the mutant of validate_data: the dates are not compared
validate_data_without_dates(form) ==
    LET rate == Float(ReplaceComma(form.initial_rate_edit))
        amount == Float(ReplaceComma(form.amount_edit))
    IN  /\ form.initial_rate_edit # <<>> /\ rate # ValueError
        /\ ~IsNegative(rate) /\ ~GreaterThanPowerOfTen(rate, 2)
        /\ form.amount_edit # <<>> /\ amount # ValueError
        /\ ~IsNegative(amount) /\ ~IsZero(amount)
        /\ ~GreaterThanPowerOfTen(amount, 12)

\* validate_data: the checks in the order made, each failure returning False
validate_data(form) ==
    IF form.start_date >= form.end_date THEN FALSE
    ELSE IF form.initial_rate_edit = <<>> THEN FALSE
    ELSE LET rate == Float(ReplaceComma(form.initial_rate_edit))
         IN  IF rate = ValueError THEN FALSE
             ELSE IF IsNegative(rate) \/ GreaterThanPowerOfTen(rate, 2) THEN FALSE
             ELSE IF form.amount_edit = <<>> THEN FALSE
             ELSE LET amount == Float(ReplaceComma(form.amount_edit))
                  IN  IF amount = ValueError THEN FALSE
                      ELSE IF IsNegative(amount) \/ IsZero(amount) THEN FALSE
                      ELSE IF GreaterThanPowerOfTen(amount, 12) THEN FALSE
                      ELSE TRUE

\* the contract_data collected from the fields; ValueError when a rate cell is
\* no float (the cells are read without replacing the comma)
CollectContractData(form) ==
    IF \E i \in DOMAIN form.rate_table : Float(form.rate_table[i].rate) = ValueError
    THEN ValueError
    ELSE Settings(form.start_date, form.end_date,
                  ToRate(Float(ReplaceComma(form.initial_rate_edit))),
                  [i \in DOMAIN form.rate_table |->
                      [date |-> form.rate_table[i].date,
                       rate |-> ToRate(Float(form.rate_table[i].rate))]],
                  ToAmount(Float(ReplaceComma(form.amount_edit))))

\* save_settings: nothing is written when the validation fails or an
\* exception is caught; otherwise the record is saved and the dialog accepted
save_settings(form) ==
    LET written == validate_data(form) /\ CollectContractData(form) # ValueError
    IN  /\ contract_settings' =
              IF written
              THEN SaveContractSettingsTable(contract_settings, CollectContractData(form))
              ELSE contract_settings
        /\ last' = [op |-> "save_settings", form |-> form, accepted |-> written]
        /\ UNCHANGED <<daily_data, today, window>>

---------------------------------------------------------------------------
(* The dialog over drawn field contents: SpecDialog *)

RateTexts ==
    {<<>>, <<"1", "0", ",", "0", "0">>, <<"1", "0", "0">>, <<"1", "0", "0", ".", "0", "1">>,
     <<"-", "1">>, <<"1", "x">>}

AmountTexts ==
    {<<>>, <<"0", ".", "0", "0">>, <<"3", "0", "0", "0", ",", "5">>, <<"-", "5">>, <<"1", "2", "a">>,
     <<"2", "0", "0", "0", "0", "0", "0", "0", "0", "0", "0", "0", "0">>,
     <<"1", "0", "0", "0", "0", "0", "0", "0", "0", "0", "0", "0", "0", ".", "0", "1">>}

RateTables ==
    {<<>>,
     <<RateTableRow(QDate(2024, 2, 1), <<"1", "2", ".", "0", "0">>)>>,
     <<RateTableRow(QDate(2024, 2, 1), <<"7", ",", "5">>)>>}

DialogDates == {QDate(2024, 1, 15), QDate(2024, 3, 10)}

Forms ==
    {Form(start, end, rate_text, amount_text, rate_table) :
        start \in DialogDates, end \in DialogDates, rate_text \in RateTexts,
        amount_text \in AmountTexts, rate_table \in RateTables}

NextDialog == \E form \in Forms : save_settings(form)

SpecDialog == Init /\ [][NextDialog]_vars

---------------------------------------------------------------------------
(* Claims about the dialog, checked under SpecDialog *)

\* the rate texts drawn that denote a rate from 0 to 100: 10,00 and 100
RateTextsInRange == {<<"1", "0", ",", "0", "0">>, <<"1", "0", "0">>}

\* the amount texts drawn that denote an amount above 0 and up to 10^12: 3000,5
AmountTextsInRange == {<<"3", "0", "0", "0", ",", "5">>}

FormInRange(form) ==
    /\ form.start_date < form.end_date
    /\ form.initial_rate_edit \in RateTextsInRange
    /\ form.amount_edit \in AmountTextsInRange

\* C17: save_settings writes a record only when start_date < end_date,
\* 0 <= initial_rate <= 100 and 0 < contract_amount <= 10^12; when one of these
\* fails the stored settings stay as they are and the dialog is not accepted;
\* so the stored record always has start_date < end_date.
C17_DialogSavesOnlyValidSettings ==
    /\ [][last'.op = "save_settings" =>
            /\ (last'.accepted \/ contract_settings' # contract_settings)
                  => FormInRange(last'.form)
            /\ ~FormInRange(last'.form) =>
                  contract_settings' = contract_settings /\ ~last'.accepted
            /\ last'.accepted =>
                  /\ Len(contract_settings') = 1
                  /\ GetContractSettings(contract_settings', today').start_date
                        = last'.form.start_date
                  /\ GetContractSettings(contract_settings', today').end_date
                        = last'.form.end_date]_vars
    /\ [](Cur.start_date < Cur.end_date)

\* a form whose dates alone are wrong was refused while an earlier record is stored
C17_Witness ==
    /\ last.op = "save_settings"
    /\ ~last.accepted
    /\ last.form.start_date > last.form.end_date
    /\ last.form.initial_rate_edit \in RateTextsInRange
    /\ last.form.amount_edit \in AmountTextsInRange
    /\ last.form.rate_table = <<>>
    /\ contract_settings # <<>>

---------------------------------------------------------------------------
(* Further claims about the plan, checked under SpecPlan *)

\* C18: the entry of the included month with index i is base when the deposits
\* of included months 1..i are at most base * i, and otherwise
\* max(0, base - (deposits - base * i)); every entry lies in [0, base].
C18_PlanEntryFormula ==
    PlanReturned =>
        \A i \in 1 .. Cardinality(DOMAIN last.ret) :
            LET entry == last.ret[KthMonthKey(i)]
                cum == FromInt(CumulativeDeposits(i))
                target == RMulInt(BaseAmount, i)
                reduced == RSub(BaseAmount, RSub(cum, target))
            IN  /\ KthMonthKey(i) \in DOMAIN last.ret
                /\ entry = (IF ~RLess(target, cum) THEN BaseAmount
                            ELSE IF RLess(reduced, FromInt(0)) THEN FromInt(0)
                            ELSE reduced)
                /\ ~RLess(entry, FromInt(0))
                /\ ~RLess(BaseAmount, entry)

\* one month's entry is clamped to 0, another is reduced but positive, and a
\* deposit dated before the contract is in the ledger
C18_Witness ==
    /\ PlanReturned
    /\ \E i, j \in 1 .. Cardinality(DOMAIN last.ret) :
          /\ last.ret[KthMonthKey(i)] = FromInt(0)
          /\ RLess(BaseAmount, RSub(FromInt(CumulativeDeposits(i)), RMulInt(BaseAmount, i)))
          /\ RLess(FromInt(0), last.ret[KthMonthKey(j)])
          /\ RLess(last.ret[KthMonthKey(j)], BaseAmount)
    /\ \E r \in DOMAIN daily_data :
          fromStringISO(daily_data[r].date) < Cur.start_date

---------------------------------------------------------------------------
(* Further claims about the interest simulator, checked under SpecInterest *)

\* the date of (y, m) with the day of month d, or the last day of (y, m) when
\* the month has no day d
DayOrLastOf(y, m, d) ==
    QDate(y, m, IF d <= daysInMonthOf(y, m) THEN d ELSE daysInMonthOf(y, m))

\* one calendar month before a date, the day clamped to the month's length
OneMonthBefore(date) ==
    IF month(date) = 1 THEN DayOrLastOf(year(date) - 1, 12, day(date))
    ELSE DayOrLastOf(year(date), month(date) - 1, day(date))

\* the accrual date, the start and the end of the target period of the month asked
ClaimedAccrual == DayOrLastOf(last.year, last.month, day(Cur.start_date))

ClaimedPeriodStart ==
    IF OneMonthBefore(ClaimedAccrual) < Cur.start_date
    THEN Cur.start_date ELSE OneMonthBefore(ClaimedAccrual)

ClaimedPeriodEnd == IF today < ClaimedAccrual THEN today ELSE ClaimedAccrual

RECURSIVE SumCounted(_)
SumCounted(days) ==
    IF days = <<>> THEN 0
    ELSE (IF days[1].counted THEN days[1].daily_interest ELSE 0) + SumCounted(Tail(days))

\* C19: the accrual date of (Y, M) is the date of (Y, M) with the day of month
\* of start_date, or the last day of (Y, M); the target period starts one
\* calendar month before it (day clamped), raised to start_date, and ends at
\* min(accrual date, today).  Seen in the simulation: the days simulated are
\* those from start_date to the day before the period's end, and exactly the
\* interest of the days from the period's start on is returned.
C19_AccrualDateAndTargetPeriod ==
    (InterestReturned /\ last.days # <<>>) =>
        /\ Len(last.days) = ClaimedPeriodEnd - Cur.start_date
        /\ \A i \in DOMAIN last.days :
              /\ last.days[i].date = Cur.start_date + i - 1
              /\ last.days[i].counted <=>
                    (last.days[i].opening > 0 /\ last.days[i].date >= ClaimedPeriodStart)
        /\ last.ret = SumCounted(last.days)

\* the day of start_date does not exist in the month asked, and the month
\* before the clamped accrual date begins before start_date
C19_Witness ==
    /\ InterestReturned
    /\ day(ClaimedAccrual) < day(Cur.start_date)
    /\ OneMonthBefore(ClaimedAccrual) < Cur.start_date
    /\ ClaimedAccrual < today
    /\ last.ret > 0

\* C20: calculate_monthly_interest returns 0 when the accrual date is on or
\* before start_date, so for the month of start_date and every earlier month,
\* and when the target period starts on or after min(accrual date, today), so
\* for every month whose target period has not begun today, whatever the
\* ledger and the rates.
C20_ZeroOutsideThePeriod ==
    InterestReturned =>
        /\ (ClaimedAccrual <= Cur.start_date \/ ClaimedPeriodStart >= ClaimedPeriodEnd)
              => (last.ret = 0 /\ last.days = <<>>)
        /\ MonthNumber(QDate(last.year, last.month, 1)) <= MonthNumber(Cur.start_date)
              => last.ret = 0
        /\ ClaimedPeriodStart >= today => last.ret = 0

\* a month whose target period has not begun today was asked, over a ledger
\* that earns interest in an earlier month
C20_Witness ==
    /\ InterestReturned
    /\ ClaimedAccrual > Cur.start_date
    /\ ClaimedPeriodStart >= today
    /\ last.ret = 0
    /\ \E ym \in InterestMonths :
          CalculateMonthlyInterest(contract_settings, daily_data, today, ym[1], ym[2]) > 0

\* the interest of the logged days dated from a day on
RECURSIVE SumFrom(_, _)
SumFrom(days, from) ==
    IF days = <<>> THEN 0
    ELSE (IF days[1].date >= from THEN days[1].daily_interest ELSE 0)
           + SumFrom(Tail(days), from)

\* C21: calculate_monthly_interest(Y, M) returns exactly the sum of the daily
\* interest of the simulated days d with target_period_start <= d <
\* simulation_end_date; the simulation starts with balance 0 on start_date, and
\* the interest of the days before target_period_start is added to the balance
\* but is not part of the value returned.
C21_ReturnsInterestOfTargetPeriodOnly ==
    InterestReturned =>
        /\ last.ret = SumFrom(last.days, ClaimedPeriodStart)
        /\ \A i \in DOMAIN last.days :
              /\ last.days[i].date < ClaimedPeriodEnd
              /\ i = 1 => (last.days[i].date = Cur.start_date /\ last.days[i].opening = 0)
              /\ i > 1 => last.days[i].opening =
                              last.days[i - 1].opening + last.days[i - 1].daily_interest
                                + last.days[i - 1].deposit

\* interest accrued before the target period and in it: the earlier interest
\* is in the balance and not in the value returned
C21_Witness ==
    /\ InterestReturned
    /\ last.ret > 0
    /\ \E i \in DOMAIN last.days :
          /\ last.days[i].date < ClaimedPeriodStart
          /\ last.days[i].daily_interest > 0
          /\ last.days[i + 1].opening >= last.days[i].opening + last.days[i].daily_interest
    /\ last.ret < SumFrom(last.days, Cur.start_date)

---------------------------------------------------------------------------
(* Further claims about the rate resolver, checked under SpecRate *)

\* the entries in force on a date that carry the latest date among them
LatestInForce(date) ==
    {i \in InForce(date) :
        \A j \in InForce(date) :
            ChangeDate(Cur.rate_history[j]) <= ChangeDate(Cur.rate_history[i])}

\* the greatest of a non-empty set of indices
MaxIndex(indices) == CHOOSE i \in indices : \A j \in indices : j <= i

\* C22: when several entries share the same effective date and that date is
\* the latest one at or before D, the rate returned for D is that of the entry
\* listed last in the stored rate_history, in whatever order the history is
\* stored.
C22_LastListedWinsAmongSameDate ==
    (RateReturned /\ Cardinality(LatestInForce(last.date)) >= 2) =>
        last.ret = Cur.rate_history[MaxIndex(LatestInForce(last.date))].rate

\* two entries of one date and different rates, the date not after D
C22_Witness ==
    /\ RateReturned
    /\ LatestInForce(last.date) = {1, 2}
    /\ Cur.rate_history[1].rate # Cur.rate_history[2].rate
    /\ last.ret = Cur.rate_history[2].rate
    /\ last.ret # Cur.initial_rate

---------------------------------------------------------------------------
(* The target periods of contracts begun late in a month: SpecPeriods *)

\* the months asked: those after the month of start_date
PeriodMonths == {<<2024, 2>>, <<2024, 3>>, <<2024, 4>>, <<2024, 5>>}

\* contracts begun on the 29th, 30th and 31st of January 2024
InitPeriods ==
    /\ daily_data \in Ledgers({QDate(2024, 1, 31), QDate(2024, 2, 10)}, {100000})
    /\ contract_settings \in
          {<<SettingsRow(Settings(start, QDate(2024, 12, 31), 10, <<>>, 1200000))>> :
              start \in {QDate(2024, 1, 29), QDate(2024, 1, 30), QDate(2024, 1, 31)}}
    /\ today \in {QDate(2024, 4, 15), QDate(2024, 6, 10)}
    /\ last = NoCall
    /\ window = NoWindow

NextPeriods ==
    \/ \E ym \in PeriodMonths : calculate_monthly_interest(ym[1], ym[2])
    \/ \E up_to_date \in {QDate(2024, 4, 20), QDate(2024, 5, 31)} :
          get_total_accumulated_interest(up_to_date)

SpecPeriods == InitPeriods /\ [][NextPeriods]_vars

\* the days of the target period [target_period_start, accrual_date) of (y, m)
TargetPeriod(y, m) ==
    LET accrual_date == AccrualDate(y, m, day(Cur.start_date))
    IN  IF accrual_date <= Cur.start_date THEN {}
        ELSE TargetPeriodStart(accrual_date, Cur.start_date) .. accrual_date - 1

\* the days whose interest calculate_monthly_interest(y, m) counts
CountedDates(y, m) ==
    LET days == MonthlyInterestRun(contract_settings, daily_data, today, y, m).days
    IN  {days[i].date : i \in {j \in DOMAIN days : days[j].counted}}

\* C23: for every start_date, of day of month 29, 30 and 31 too, the target
\* periods of any two distinct months are disjoint, so no simulated day's
\* interest is counted by calculate_monthly_interest for more than one month
\* and get_total_accumulated_interest counts no day's interest twice.
C23_Original ==
    /\ InterestReturned =>
          \A ym \in PeriodMonths \ {<<last.year, last.month>>} :
              /\ TargetPeriod(last.year, last.month) \cap TargetPeriod(ym[1], ym[2]) = {}
              /\ CountedDates(last.year, last.month) \cap CountedDates(ym[1], ym[2]) = {}
    /\ TotalReturned =>
          \A i, j \in DOMAIN last.months :
              i # j => CountedDates(last.months[i][1], last.months[i][2])
                         \cap CountedDates(last.months[j][1], last.months[j][2]) = {}

---------------------------------------------------------------------------
(* The main window FinanceCalendar over the store *)

\* 1 if date.month() <= 6 else 2
HalfOf(date) == IF month(date) <= 6 THEN 1 ELSE 2

\* the mutant of UpdateNavButtonsState: both buttons are left enabled
NavButtonsAlwaysEnabled(w, settings_table, current) ==
    [w EXCEPT !.prev_button = TRUE, !.next_button = TRUE]

\* update_nav_buttons_state: setEnabled of the two navigation buttons
UpdateNavButtonsState(w, settings_table, current) ==
    LET settings == GetContractSettings(settings_table, current)
        current_period_val == w.current_year * 10 + w.current_half
        start_period_val == year(settings.start_date) * 10 + HalfOf(settings.start_date)
        end_period_val == year(settings.end_date) * 10 + HalfOf(settings.end_date)
    IN  [w EXCEPT !.prev_button = ~(current_period_val <= start_period_val),
                  !.next_button = ~(current_period_val >= end_period_val)]

\* FinanceCalendar.__init__: the view of today's half-year, the copy of the
\* ledger, the buttons as update_nav_buttons_state sets them
FinanceCalendarInit(settings_table, data_table, current) ==
    UpdateNavButtonsState(
        [constructed |-> TRUE,
         current_year |-> year(current),
         current_half |-> HalfOf(current),
         daily_data |-> GetAllDailyData(data_table),
         prev_button |-> TRUE,
         next_button |-> TRUE],
        settings_table, current)

\* the assignments of navigate_half to current_year and current_half
NavigateHalf(w, direction) ==
    IF direction = 1
    THEN IF w.current_half = 2
         THEN [w EXCEPT !.current_year = @ + 1, !.current_half = 1]
         ELSE [w EXCEPT !.current_half = 2]
    ELSE IF direction = 0 - 1
    THEN IF w.current_half = 1
         THEN [w EXCEPT !.current_year = @ - 1, !.current_half = 2]
         ELSE [w EXCEPT !.current_half = 1]
    ELSE w

\* QDoubleValidator(0.00, 1000000000.00, 2) on the amount field: a text that
\* can be typed has digits and at most one decimal separator with at most two
\* digits behind it; a sign is refused since the range is not negative
Typeable(text) ==
    LET separators == {i \in DOMAIN text : text[i] \in {",", "."}}
    IN  /\ \A i \in DOMAIN text : text[i] \in DOMAIN DigitValue \cup {",", "."}
        /\ Cardinality(separators) <= 1
        /\ \A i \in separators : Len(text) - i <= 2

\* the mutant of InputDialogAccept: the limit is not checked
InputDialogAcceptNoLimit(text, max_amount) ==
    LET amount == Float(ReplaceComma(text))
    IN  IF amount = ValueError THEN [accepted |-> FALSE]
        ELSE [accepted |-> TRUE, amount |-> ToAmount(amount)]

\* InputDialog.accept: the dialog is accepted with the amount typed, or stays
\* open on a text that is no number or an amount over the limit
InputDialogAccept(text, max_amount) ==
    LET amount == Float(ReplaceComma(text))
    IN  IF amount = ValueError THEN [accepted |-> FALSE]
        ELSE IF max_amount > 0 /\ ToAmount(amount) > max_amount
        THEN [accepted |-> FALSE]
        ELSE [accepted |-> TRUE, amount |-> ToAmount(amount)]

\* the mutant of ContractFulfilled: a contract paid exactly is not taken for
\* fulfilled
ContractOverpaid(max_remaining_to_pay) == max_remaining_to_pay < 0

\* the test that ends _day_clicked with the notice that the contract is paid
ContractFulfilled(max_remaining_to_pay) == max_remaining_to_pay <= 0

\* the mutant of SetLocalAmount: the copy is not written
KeepLocalAmount(local_data, date, new_amount) == local_data

\* self.daily_data[date.toString('yyyy-MM-dd')] = new_amount
SetLocalAmount(local_data, date, new_amount) ==
    DictSet(local_data, toStringISO(date), new_amount)

\* _calculate_monthly_fact(month_key) over the window's copy
CalculateMonthlyFact(w, month_key) == MonthlyFact(w.daily_data, month_key)

\* a click on a day of the half-year displayed; the dialog is closed by Save
\* on the text typed (save) or by Cancel, also after Save was refused
_day_clicked(date, text, save) ==
    LET settings == GetContractSettings(contract_settings, today)
        total_contract_amount == settings.contract_amount
        all_daily_data == GetAllDailyData(daily_data)
        total_fact == SumValues(all_daily_data)
        max_remaining_to_pay == total_contract_amount - total_fact
        max_amount == MaxZero(max_remaining_to_pay)
        dialog == IF save THEN InputDialogAccept(text, max_amount)
                  ELSE [accepted |-> FALSE]
        stored == /\ ~(date < settings.start_date \/ date >= settings.end_date)
                  /\ ~ContractFulfilled(max_remaining_to_pay)
                  /\ dialog.accepted
    IN  /\ window.constructed
        /\ year(date) = window.current_year /\ HalfOf(date) = window.current_half
        /\ Typeable(text)
        /\ daily_data' = IF stored
                         THEN SaveDailyAmountTable(daily_data, date, dialog.amount)
                         ELSE daily_data
        /\ window' = IF stored
                     THEN UpdateNavButtonsState(
                              [window EXCEPT !.daily_data =
                                   SetLocalAmount(@, date, dialog.amount)],
                              contract_settings, today)
                     ELSE window
        /\ last' = [op |-> "_day_clicked", date |-> date, text |-> text, save |-> save,
                    stored |-> stored,
                    replaced |-> Len(RowsWithDate(daily_data, toStringISO(date)))]
        /\ UNCHANGED <<contract_settings, today>>

\* a click on an enabled navigation button
navigate_half(direction) ==
    /\ window.constructed
    /\ IF direction = 1 THEN window.next_button ELSE window.prev_button
    /\ window' = UpdateNavButtonsState(NavigateHalf(window, direction),
                                       contract_settings, today)
    /\ last' = [op |-> "navigate_half", direction |-> direction,
                from |-> <<window.current_year, window.current_half>>]
    /\ UNCHANGED <<daily_data, contract_settings, today>>

\* _open_settings_dialog: the dialog is closed by Save on the form (accepted
\* when save_settings writes it) or is not accepted; once accepted the view
\* is reset to the half-year of the new start_date
_open_settings_dialog(form) ==
    LET written == validate_data(form) /\ CollectContractData(form) # ValueError
        saved == SaveContractSettingsTable(contract_settings, CollectContractData(form))
        start_date == GetContractSettings(saved, today).start_date
    IN  /\ window.constructed
        /\ contract_settings' = IF written THEN saved ELSE contract_settings
        /\ window' = IF written
                     THEN UpdateNavButtonsState(
                              [window EXCEPT !.current_year = year(start_date),
                                             !.current_half = HalfOf(start_date)],
                              saved, today)
                     ELSE window
        /\ last' = [op |-> "_open_settings_dialog", form |-> form, accepted |-> written]
        /\ UNCHANGED <<daily_data, today>>

---------------------------------------------------------------------------
(* The window over a fresh store: SpecWindow *)

\* days of three half-years: before the contract, its first day, a later day
\* and its end_date
ClickDates ==
    {QDate(2024, 5, 19), QDate(2024, 5, 20), QDate(2024, 7, 1), QDate(2025, 2, 10)}

\* texts of the amount field: empty, 0, 1000, 2000,50, 3000 and -5
ClickTexts ==
    {<<>>, <<"0">>, <<"1", "0", "0", "0">>, <<"2", "0", "0", "0", ",", "5", "0">>,
     <<"3", "0", "0", "0">>, <<"-", "5">>}

\* forms of the settings dialog: a contract of 3000, one of 1000 begun later,
\* and dates in the wrong order
WindowForms ==
    {Form(QDate(2024, 5, 20), QDate(2025, 2, 10), <<"1", "0">>, <<"3", "0", "0", "0">>, <<>>),
     Form(QDate(2024, 7, 1), QDate(2025, 2, 10), <<"1", "0">>, <<"1", "0", "0", "0">>, <<>>),
     Form(QDate(2025, 2, 10), QDate(2024, 5, 20), <<"1", "0">>, <<"3", "0", "0", "0">>, <<>>)}

\* the window opened over a fresh store, or over the settings of a contract
\* that ended before today
InitWindow ==
    /\ daily_data = <<>>
    /\ contract_settings \in
          {<<>>, <<SettingsRow(Settings(QDate(2023, 1, 10), QDate(2023, 9, 30),
                                        10, <<>>, 300000))>>}
    /\ today = QDate(2024, 6, 15)
    /\ last = NoCall
    /\ window = FinanceCalendarInit(contract_settings, daily_data, today)

NextWindow ==
    \/ \E date \in ClickDates, text \in ClickTexts, save \in BOOLEAN :
          _day_clicked(date, text, save)
    \/ \E direction \in {1, 0 - 1} : navigate_half(direction)
    \/ \E form \in WindowForms : _open_settings_dialog(form)

SpecWindow == InitWindow /\ [][NextWindow]_vars

---------------------------------------------------------------------------
(* Claims about the main window, checked under SpecWindow *)

DayClicked == last.op = "_day_clicked"

\* the deposits sum to at most contract_amount and are dated in [start_date, end_date)
WithinContract ==
    /\ SumAmounts(daily_data) <= Cur.contract_amount
    /\ \A i \in DOMAIN daily_data :
          /\ Cur.start_date <= fromStringISO(daily_data[i].date)
          /\ fromStringISO(daily_data[i].date) < Cur.end_date

\* C24: from an empty ledger and under settings that stay as they are
\* (contract_amount > 0), after any sequence of day clicks, edits of a filled
\* day included, the deposits sum to at most contract_amount and every deposit
\* is dated in [start_date, end_date): the empty ledger is so, and no click on
\* a ledger that is so leaves one that is not.
C24_ClicksKeepLedgerWithinContract ==
    /\ daily_data = <<>>
    /\ [][(last'.op = "_day_clicked" /\ Cur.contract_amount > 0 /\ WithinContract)
            => /\ WithinContract'
               /\ contract_settings' = contract_settings]_vars

\* a filled day was edited while another day is filled
C24_Witness ==
    /\ DayClicked /\ last.stored
    /\ last.replaced = 1
    /\ Len(daily_data) >= 2
    /\ Cur.contract_amount > 0
    /\ WithinContract

\* C25: whenever the deposits sum to contract_amount or more, a day click on
\* any date leaves the ledger as it is: no deposit is added, reduced or deleted.
C25_NoClickChangesAPaidContract ==
    [][(last'.op = "_day_clicked" /\ SumAmounts(daily_data) >= Cur.contract_amount)
          => /\ daily_data' = daily_data
             /\ ~last'.stored]_vars

\* Save on 0 for a filled day of the contract was without effect, the deposits
\* exceeding a contract amount that was lowered
C25_Witness ==
    /\ DayClicked /\ ~last.stored
    /\ last.save /\ last.text = <<"0">>
    /\ last.replaced = 1
    /\ Cur.start_date <= last.date /\ last.date < Cur.end_date
    /\ Cur.contract_amount > 0
    /\ SumAmounts(daily_data) > Cur.contract_amount

\* the month keys of the days that can be clicked
ClickMonths == {toStringMonth(d) : d \in ClickDates}

\* C29: after any sequence of accepted or rejected day clicks the window's
\* copy daily_data agrees with the stored ledger on every date:
\* daily_data.get(d, 0) = get_daily_amount(d); so the monthly fact computed
\* from the copy equals the fact computed from the store.
C29_WindowCopyAgreesWithStore ==
    /\ \A d \in ClickDates :
          DictGet(window.daily_data, toStringISO(d), 0) = GetDailyAmount(daily_data, d)
    /\ \A key \in DOMAIN window.daily_data :
          window.daily_data[key] = GetDailyAmount(daily_data, fromStringISO(key))
    /\ \A i \in DOMAIN daily_data :
          DictGet(window.daily_data, daily_data[i].date, 0) = daily_data[i].amount
    /\ \A key \in ClickMonths :
          /\ CalculateMonthlyFact(window, key) = DepositsOfMonth(key[1], key[2])
          /\ CalculateMonthlyFact(window, key) =
                GetMonthlySummary(contract_settings, daily_data, today,
                                  key[1], key[2]).fact

\* a deposit was deleted by saving 0, the copy keeping its key, while another
\* deposit is stored
C29_Witness ==
    /\ DayClicked /\ last.stored
    /\ last.replaced = 1
    /\ toStringISO(last.date) \in DOMAIN window.daily_data
    /\ RowsWithDate(daily_data, toStringISO(last.date)) = <<>>
    /\ daily_data # <<>>

\* half-years counted from year 0
HalfYearNumber(y, half) == 2 * y + half - 1

DisplayedHalfYear(w) == HalfYearNumber(w.current_year, w.current_half)

\* the displayed half-year lies from that of start_date to that of end_date
InContractRange(w, settings) ==
    /\ HalfYearNumber(year(settings.start_date), HalfOf(settings.start_date))
          <= DisplayedHalfYear(w)
    /\ DisplayedHalfYear(w)
          <= HalfYearNumber(year(settings.end_date), HalfOf(settings.end_date))

\* C30: current_half is always 1 or 2; navigate_half(1) followed by
\* navigate_half(-1) restores the same (year, half); and from a displayed
\* half-year inside the contract's range, a navigation step through a button
\* that update_nav_buttons_state left enabled keeps it inside that range.
C30_HalfYearNavigation ==
    /\ [](window.current_half \in {1, 2})
    /\ [](LET there == NavigateHalf(window, 1)
               back == NavigateHalf(there, 0 - 1)
           IN  /\ back.current_year = window.current_year
               /\ back.current_half = window.current_half
               /\ DisplayedHalfYear(there) = DisplayedHalfYear(window) + 1)
    /\ [][(last.op = "navigate_half" /\ last.direction = 1
            /\ last'.op = "navigate_half" /\ last'.direction = 0 - 1)
              => <<window'.current_year, window'.current_half>> = last.from]_vars
    /\ [][(last'.op = "navigate_half" /\ InContractRange(window, Cur))
              => InContractRange(window', Cur)]_vars

\* the last half-year of the contract was reached by the forward button,
\* which is then disabled
C30_Witness ==
    /\ last.op = "navigate_half" /\ last.direction = 1
    /\ contract_settings # <<>>
    /\ DisplayedHalfYear(window) =
          HalfYearNumber(year(Cur.end_date), HalfOf(Cur.end_date))
    /\ ~window.next_button /\ window.prev_button

---------------------------------------------------------------------------
(* The plan of one contract over ledgers that can be compared: SpecMonotone *)

\* days of the three planned months of the contracts drawn
MonotoneDates == <<QDate(2024, 1, 15), QDate(2024, 2, 10), QDate(2024, 3, 5)>>

InitMonotone ==
    /\ daily_data \in Ledgers(Range(MonotoneDates), {100000, 250000})
    /\ contract_settings \in
          {<<SettingsRow(Settings(QDate(2024, 1, 15), end, 0, <<>>, amount))>> :
              end \in {QDate(2024, 3, 1), QDate(2024, 4, 10)},
              amount \in {300000, 1200000}}
    /\ today = QDate(2024, 2, 20)
    /\ last = NoCall
    /\ window = NoWindow

SpecMonotone == InitMonotone /\ [][NextPlan]_vars

\* the ledgers L2 a ledger is compared with: every filling of the three days
\* with no deposit or one of three amounts
ComparedLedgers ==
    {SelectSeq([i \in DOMAIN MonotoneDates |->
                   Row(toStringISO(MonotoneDates[i]), f[i])],
               LAMBDA r : r.amount # 0) :
        f \in [DOMAIN MonotoneDates -> {0, 100000, 250000, 400000}]}

\* L1(d) <= L2(d) on every date d
LedgerLeq(L1, L2) ==
    \A i \in DOMAIN MonotoneDates :
        GetDailyAmount(L1, MonotoneDates[i]) <= GetDailyAmount(L2, MonotoneDates[i])

\* C26: for fixed settings and two ledgers L1 and L2 with L1(d) <= L2(d) on
\* every date d, every month's entry of calculate_monthly_plans under L2 is
\* less than or equal to that month's entry under L1.
C26_PlanIsMonotoneInDeposits ==
    PlanReturned =>
        \A L2 \in ComparedLedgers :
            LedgerLeq(daily_data, L2) =>
                LET plans2 == CalculateMonthlyPlans(contract_settings, L2, today)
                IN  /\ DOMAIN plans2 = DOMAIN last.ret
                    /\ \A key \in DOMAIN last.ret :
                          ~RLess(last.ret[key], plans2[key])

\* a month's entry, already reduced under L1, is lower still under a greater
\* ledger, and another month's entry is the same under both
C26_Witness ==
    /\ PlanReturned
    /\ daily_data # <<>>
    /\ \E L2 \in ComparedLedgers :
          /\ LedgerLeq(daily_data, L2)
          /\ LET plans2 == CalculateMonthlyPlans(contract_settings, L2, today)
             IN  \E key, other \in DOMAIN last.ret :
                    /\ RLess(last.ret[key], BaseAmount)
                    /\ RLess(plans2[key], last.ret[key])
                    /\ plans2[other] = last.ret[other]

---------------------------------------------------------------------------
(* What the interest depends on: SpecIndependence *)

\* contracts that differ in end_date and contract_amount only, and the same
\* with a change of rate
IndependenceSettings ==
    {Settings(QDate(2024, 1, 15), end, 10, history, amount) :
        end \in {QDate(2024, 2, 10), QDate(2024, 6, 30)},
        history \in {<<>>, <<RateChange(QDate(2024, 2, 1), 12)>>},
        amount \in {300000, 1200000}}

InitIndependence ==
    /\ daily_data \in Ledgers({QDate(2024, 1, 15), QDate(2024, 2, 10)}, {100000})
    /\ contract_settings \in
          {<<SettingsRow(contract_data)>> : contract_data \in IndependenceSettings}
    /\ today = QDate(2024, 3, 20)
    /\ last = NoCall
    /\ window = NoWindow

\* the months asked reach past the month of the earlier end_date; the dates
\* asked lie by two in one month, before and after the day of start_date
NextIndependence ==
    \/ \E ym \in {<<2024, 2>>, <<2024, 3>>, <<2024, 4>>} :
          calculate_monthly_interest(ym[1], ym[2])
    \/ \E up_to_date \in {QDate(2024, 1, 20), QDate(2024, 2, 10), QDate(2024, 2, 20),
                           QDate(2024, 3, 1), QDate(2024, 3, 31)} :
          get_total_accumulated_interest(up_to_date)

SpecIndependence == InitIndependence /\ [][NextIndependence]_vars

\* the dates of the calendar month of a date
DatesOfMonthOf(date) ==
    QDate(year(date), month(date), 1) .. QDate(year(date), month(date), daysInMonth(date))

\* the last day simulated for the month (y, m): the day before min(accrual
\* date, today)
LastDaySimulated(y, m) ==
    LET accrual == DayOrLastOf(y, m, day(Cur.start_date))
    IN  (IF today < accrual THEN today ELSE accrual) - 1

\* C27: for a fixed current date, ledger and settings,
\* get_total_accumulated_interest returns the same value for any two
\* up_to_date arguments of one calendar month; each monthly simulation summed
\* ends at min(accrual date, today), never at up_to_date.
C27_TotalDependsOnMonthOfUpToDate ==
    TotalReturned =>
        /\ \A other \in DatesOfMonthOf(last.up_to_date) :
              TotalInterestRun(contract_settings, daily_data, today, other).total_interest
                  = last.ret
        /\ \A i \in DOMAIN last.months :
              LET days == MonthlyInterestRun(contract_settings, daily_data, today,
                                             last.months[i][1], last.months[i][2]).days
              IN  days # <<>> =>
                      days[Len(days)].date
                          = LastDaySimulated(last.months[i][1], last.months[i][2])

\* interest was summed for an up_to_date before the day of start_date in its
\* month, the simulation of that month running past up_to_date
C27_Witness ==
    /\ TotalReturned
    /\ last.ret > 0
    /\ day(last.up_to_date) < day(Cur.start_date)
    /\ Len(last.months) >= 2
    /\ LET final == last.months[Len(last.months)]
       IN  /\ LastDaySimulated(final[1], final[2]) > last.up_to_date
           /\ CalculateMonthlyInterest(contract_settings, daily_data, today,
                                        final[1], final[2]) > 0

\* the settings drawn that differ from the stored ones in end_date and
\* contract_amount at most
SameButEndAndAmount ==
    {other \in IndependenceSettings :
        /\ other.start_date = Cur.start_date
        /\ other.initial_rate = Cur.initial_rate
        /\ other.rate_history = Cur.rate_history}

\* C28: calculate_monthly_interest does not depend on end_date or
\* contract_amount: for settings that differ in these only, and the same
\* ledger and current date, it returns the same value for every month, months
\* after the month of end_date included.
C28_InterestIgnoresEndDateAndAmount ==
    InterestReturned =>
        \A other \in SameButEndAndAmount :
            CalculateMonthlyInterest(<<SettingsRow(other)>>, daily_data, today,
                                     last.year, last.month) = last.ret

\* interest was returned for a month after the month of end_date, the
\* deposits exceeding the contract amount
C28_Witness ==
    /\ InterestReturned
    /\ last.ret > 0
    /\ MonthNumber(QDate(last.year, last.month, 1)) > MonthNumber(Cur.end_date)
    /\ Cardinality(SameButEndAndAmount) = 4

===========================================================================
